---- MODULE Spec2Model ----
(***************************************************************************)
(* Contest lifecycle, fair draw and voting tally of the giveaway bot.      *)
(*                                                                         *)
(* One contest is modelled per specification:                              *)
(*   Spec            life of a RAFFLE (routers/roulette.py: join, pause,   *)
(*                   resume, draw) from its publication.                   *)
(*   SpecDraw        draw invocations on a paused raffle, arriving at      *)
(*                   NumProcs bot processes that share the database and    *)
(*                   each own an _inproc_locks table.                      *)
(*   SpecOneProc     the same with a single bot process.                   *)
(*   SpecContest     registration and finalize requests of a VOTE or QUIZ  *)
(*                   contest (routers/voting.py, routers/quiz.py).         *)
(*   SpecVote        add_vote calls on a VOTE contest (services/voting.py).*)
(*   SpecDrawUnique  services/security.py draw_unique as a pure function.  *)
(*                                                                         *)
(* The rate limiter (3 calls per 5 seconds per user and action) only drops *)
(* requests; a dropped request is a request that was not made.             *)
(*                                                                         *)
(* Every handler is cut at its awaits: one action per stretch of code that *)
(* runs without suspension.  A database row is written only for the        *)
(* attributes the ORM session sees as changed against the values it        *)
(* loaded (SQLAlchemy unit of work, sessions with expire_on_commit=False). *)
(***************************************************************************)
EXTENDS Integers, Sequences, FiniteSets, TLC

VARIABLES
    contest,        \* the contest row: type, is_open, closed_at, settings
    participants,   \* Participant rows of the raffle, in insertion order
    app_lock,       \* AppSetting row "draw:in_progress:<id>" exists
    inproc_locks,   \* _inproc_locks["draw_lock:<id>"] of each bot process
    dpc,            \* position of each draw invocation
    dloc,           \* locals of each draw invocation
    jpc,            \* position of each join request
    jloc,           \* locals of each join request
    announcements,  \* winner/result announcements posted to the channel
    notified,       \* the winner lists notified, one per invocation that selected
    failures,       \* platform calls that raised inside a handler so far
    clock,          \* logical time: the number of closing stamps taken
    du,             \* draw_unique call: sample, k, positions, result
    entries,        \* ContestEntry rows, in insertion order (id = position)
    votes,          \* Vote rows, in insertion order
    reg_offered,    \* users holding the "use my account name" button
    reg_out,        \* outcome of each user's last registration request
    vpc,            \* position of each add_vote call
    vloc,           \* locals of each add_vote call
    vcalls,         \* add_vote calls started so far
    fpc,            \* position of each finish_quiz invocation
    floc,           \* locals of each finish_quiz invocation
    vd_out,         \* outcome of the last handle_vote_draw invocation
    fa,             \* FeatureAccess of the user for "gate_channel": rows and content
    now,            \* wall clock, in days
    ticks,          \* clock advances so far
    epc,            \* position of each entitlement call
    eloc,           \* locals of each entitlement call
    ecalls,         \* entitlement calls started so far
    links,          \* ChannelLink rows, in insertion order
    created,        \* contest rows committed by confirm_create_cb, in commit order
    posts,          \* contest posts sent to channels
    cpc,            \* position of each confirm_create_cb invocation
    cloc,           \* locals of each confirm_create_cb invocation
    gates,          \* RouletteGate rows attached to the contest
    in_main,        \* the user is a member of the contest's channel
    in_gate,        \* the user is a member of the gate channel
    ref_entry,      \* the user has an entry in the contest the gates refer to
    ref_votes,      \* entries of that contest the user has voted for
    offered,        \* the user holds the vote buttons of the entry
    gpc,            \* position of the user's join or entry-view request
    gloc,           \* locals of that request
    top_entries,    \* entry ids get_top_entries returned to the last vote draw
    xentry,         \* ContestEntry row of another contest, which is not open
    prices,         \* AppSetting price_month_value / price_once_value, in stars
    invoices,       \* invoices sent to the user so far
    wstate,         \* FSM state of the user's creation wizard
    wdata,          \* FSM data of the wizard: the draft
    wloc,           \* the last wizard request handled and the answer given
    user_admin,     \* the user is creator/administrator of the candidate chat
    bot_admin,      \* the bot is administrator of the candidate chat
    vfsm,           \* FSM state and data of the voter, and whether a challenge was solved
    qsess,          \* outcome of the last _run_quiz_session task
    redis,          \* the keys quiz:<id>:active and quiz:<id>:solved (0: key absent)
    score,          \* ContestEntry.score of each user of the quiz (0: no row or score 0)
    posted,         \* the questions made active so far, in order
    credits,        \* the score increases committed so far: posting, user, points
    expiries,       \* number of key expiries so far
    apc,            \* position of each submit_fastest_answer call
    aloc            \* locals of each submit_fastest_answer call

raffleVars == <<participants, app_lock, inproc_locks, dpc, dloc, jpc, jloc,
                notified, failures, du>>

voteVars == <<entries, votes, reg_offered, reg_out, vpc, vloc, vcalls, fpc, floc, vd_out>>

ledgerVars == <<fa, now, ticks, epc, eloc, ecalls>>

createVars == <<links, created, posts, cpc, cloc>>

gateVars == <<gates, in_main, in_gate, ref_entry, ref_votes, offered, gpc, gloc>>

boardVars == <<top_entries, xentry>>

wizardVars == <<prices, invoices, wstate, wdata, wloc, user_admin, bot_admin>>

flowVars == <<vfsm>>

quizVars == <<qsess, redis, score, posted, credits, expiries, apc, aloc>>

otherVars == <<ledgerVars, createVars, gateVars, boardVars, wizardVars, flowVars, quizVars>>

contestVars == <<contest, announcements, clock, raffleVars, voteVars>>

vars == <<contestVars, otherVars>>

----------------------------------------------------------------------------
(* Bounds *)

NumTriggers == 3
NumProcs == 2
NumJoinReqs == 2
NumLifecycleDraws == 1
MaxWinners == 2
MaxSample == 3
MaxFailures == 1
NumVoteReqs == 2
MaxVoteCalls == 3
MaxStars == 2
MaxRatio == 2
NumFinishes == 2
NumLedgerCalls == 2
MaxLedgerCalls == 3
MaxTicks == 2
NumConfirms == 2
NumRetryDraws == 2
MaxGateRows == 2
MaxPrice == 2
MaxGates == 1
MaxText == 2
MaxDraftGates == 2
MaxInvoices == 2

(* Fixed cast *)

Owner == 1
Users == {1, 2, 3}
Joiners == {2, 3}
ChannelAdmins == {3}
DrawUsers == {1, 2}
Triggers == 1..NumTriggers
Procs == 1..NumProcs
JoinReqs == 1..NumJoinReqs
Registrants == {2, 3}
Voters == {3, 4}
FinishUsers == {1, 2, 3}
Answerers == {2, 3}
Questions == {1, 2}
NumAnswerReqs == 2
AnswerReqs == 1..NumAnswerReqs
MaxExpiries == 1
VoteReqs == 1..NumVoteReqs
Finishes == 1..NumFinishes
EntryIds == 1..Cardinality(Registrants)
LedgerCalls == 1..NumLedgerCalls
Confirms == 1..NumConfirms
Chats == {1, 2}

None == 0

Min(a, b) == IF a < b THEN a ELSE b
Max(a, b) == IF a > b THEN a ELSE b

SeqToSet(s) == {s[i] : i \in 1..Len(s)}

Distinct(s) == \A a, b \in 1..Len(s) : a # b => s[a] # s[b]

----------------------------------------------------------------------------
(* services/security.py: draw_unique *)

\* k = max(0, min(k, len(sample)))
ClampK(k, n) == Max(0, Min(k, n))

\* indices = list(range(len(sample))), kept 1-based here
RangeList(n) == [p \in 1..n |-> p]

\* a draw from the whole list at every step
RandRangeWhole(i, n) == 1..n

\* randrange(i, len(indices)): any position from i to the end
RandRange(i, n) == i..n

SwapNoWriteBack(ind, i, j) == [ind EXCEPT ![i] = ind[j]]
\* indices[i], indices[j] = indices[j], indices[i]
Swap(ind, i, j) == [ind EXCEPT ![i] = ind[j], ![j] = ind[i]]

\* for i in range(k): j = randrange(i, n); swap -- every list the loop can leave
RECURSIVE ShuffleFrom(_, _, _)
ShuffleFrom(ind, i, k) ==
    IF i > k THEN {ind}
    ELSE UNION {ShuffleFrom(Swap(ind, i, j), i + 1, k) : j \in RandRange(i, Len(ind))}

\* the values the k calls of randrange can return, one list per run of the
\* loop; SystemRandom draws each value uniformly from its range, so every
\* list is equally likely
RandomDraws(n, k) ==
    {js \in [1..ClampK(k, n) -> 1..n] : \A i \in 1..ClampK(k, n) : js[i] \in RandRange(i, n)}

\* the loop run with the values js: indices after the swaps from step i on
RECURSIVE SwapsFrom(_, _, _)
SwapsFrom(ind, js, i) ==
    IF i > Len(js) THEN ind ELSE SwapsFrom(Swap(ind, i, js[i]), js, i + 1)

\* the position lists draw_unique can select: indices[0..k-1]
DrawIndices(n, k) ==
    {SubSeq(ind, 1, ClampK(k, n)) : ind \in ShuffleFrom(RangeList(n), 1, ClampK(k, n))}

\* return [sample[indices[i]] for i in range(k)]
Pick(sample, pos) == [p \in 1..Len(pos) |-> sample[pos[p]]]

draw_unique(sample, k) == {Pick(sample, pos) : pos \in DrawIndices(Len(sample), k)}

\* draw_unique(sample, k) when randrange returns the values js
draw_unique_with(sample, k, js) ==
    Pick(sample, SubSeq(SwapsFrom(RangeList(Len(sample)), js, 1), 1, ClampK(k, Len(sample))))

----------------------------------------------------------------------------
(* Initial state of the raffle: routers/roulette.py confirm_create_cb *)

DrawIdle == [proc |-> 0, r_is_open |-> FALSE, r_closed_at |-> None,
             rows |-> <<>>, winners |-> <<>>, out |-> "none"]

JoinIdle == [user |-> 0, existing |-> FALSE, out |-> "none"]

DuIdle == [given |-> <<>>, sample |-> <<>>, k |-> 0, pos |-> <<>>, result |-> <<>>,
           called |-> FALSE]

VoteIdle == [voter |-> 0, entry |-> 0, is_stars |-> FALSE, stars_amount |-> 0,
             prevent |-> FALSE, ratio |-> 0, votes_count |-> 0, stars_received |-> 0,
             out |-> "none"]

FinishIdle == [user |-> 0, r_is_open |-> FALSE, out |-> "none"]

\* FeatureAccess(user_id, feature_key, expires_at NULL, one_time_credits 0)
NoRow == [exists |-> FALSE, rows |-> 0, expires_at |-> None, one_time_credits |-> 0]

LedgerIdle == [op |-> "none", consume |-> FALSE, credits |-> 0, row |-> NoRow, at |-> 0,
               payload |-> "none", amount |-> 0, currency |-> "none", out |-> "none"]

\* locals of confirm_create_cb: the draft (channel_id, gate_channels), the
\* results of its two checks, the rows flushed in its session, the id of the
\* post, the id of the committed contest, and the row loaded by the consuming
\* has_access
ConfirmIdle == [channel_id |-> 0, gates |-> 0, valid |-> FALSE, allowed |-> FALSE,
                pending |-> FALSE, message_id |-> 0, r |-> 0, row |-> NoRow,
                consumed |-> FALSE]

\* no registration, vote or finish request has been made
NoRequests ==
    /\ votes = <<>>
    /\ reg_offered = {}
    /\ reg_out = [u \in Registrants |-> "none"]
    /\ vpc = [v \in VoteReqs |-> "idle"]
    /\ vloc = [v \in VoteReqs |-> VoteIdle]
    /\ vcalls = 0
    /\ fpc = [f \in Finishes |-> "idle"]
    /\ floc = [f \in Finishes |-> FinishIdle]
    /\ vd_out = "none"

NoVoting == entries = <<>> /\ NoRequests

\* no entitlement row and no entitlement call
NoLedger ==
    /\ fa = NoRow
    /\ now = 0
    /\ ticks = 0
    /\ epc = [e \in LedgerCalls |-> "idle"]
    /\ eloc = [e \in LedgerCalls |-> LedgerIdle]
    /\ ecalls = 0

\* no contest has been confirmed
NoCreate ==
    /\ links = <<>>
    /\ created = <<>>
    /\ posts = <<>>
    /\ cpc = [c \in Confirms |-> "idle"]
    /\ cloc = [c \in Confirms |-> ConfirmIdle]

\* locals of join / handle_entry_view: the gate reached in the loop, the
\* outcome of the last membership lookup, and the answer given
GateIdle == [i |-> 0, lookup |-> "none", out |-> "none"]

\* no gate is attached and the user has asked nothing
NoGates ==
    /\ gates = <<>>
    /\ in_main = FALSE
    /\ in_gate = FALSE
    /\ ref_entry = FALSE
    /\ ref_votes = {}
    /\ offered = FALSE
    /\ gpc = "idle"
    /\ gloc = GateIdle

\* the entry of the other contest as registered: votes_count 0, stars_received 0
ForeignRow == [votes_count |-> 0, stars_received |-> 0]

\* get_top_entries has not been called
NoBoard == top_entries = <<>> /\ xentry = ForeignRow

\* DEFAULT_MONTHLY_STARS, DEFAULT_ONE_TIME_STARS, on the scale of PriceLevels
DefaultPrices == [month |-> 2, once |-> 1]

\* the draft of the wizard: state.clear() leaves no data
NoDraft == [channel_id |-> 0, text_raw |-> <<>>, style |-> "none", winners |-> 0,
            sub_view |-> "none", gate_channels |-> <<>>]

\* no wizard request has been handled
WizardIdle == [op |-> "none", out |-> "none"]

\* no wizard has been started
NoWizard ==
    /\ prices = DefaultPrices
    /\ invoices = 0
    /\ wstate = "none"
    /\ wdata = NoDraft
    /\ wloc = WizardIdle
    /\ user_admin = FALSE
    /\ bot_admin = FALSE

\* the voter is in no FSM state and has solved no challenge
NoFlow == vfsm = [state |-> "none", ans |-> 0, passed |-> FALSE]

\* no quiz task has run, no Redis key is set, nobody has answered
AnswerIdle == [user |-> 0, answer |-> 0, q |-> 0, score |-> 0, out |-> "none"]

NoQuiz ==
    /\ qsess = "none"
    /\ redis = [active |-> 0, solved |-> 0]
    /\ score = [u \in Answerers |-> 0]
    /\ posted = <<>>
    /\ credits = <<>>
    /\ expiries = 0
    /\ apc = [a \in AnswerReqs |-> "idle"]
    /\ aloc = [a \in AnswerReqs |-> AnswerIdle]

NoOther == NoLedger /\ NoCreate /\ NoGates /\ NoBoard /\ NoWizard /\ NoFlow /\ NoQuiz

\* no join or draw request has been made
NoRaffle ==
    /\ participants = <<>>
    /\ app_lock = FALSE
    /\ inproc_locks = [p \in Procs |-> FALSE]
    /\ dpc = [t \in Triggers |-> "idle"]
    /\ dloc = [t \in Triggers |-> DrawIdle]
    /\ jpc = [q \in JoinReqs |-> "idle"]
    /\ jloc = [q \in JoinReqs |-> JoinIdle]
    /\ notified = <<>>
    /\ failures = 0

\* Roulette(owner_id, channel_id, ..., winners_count=data["winners"], is_open=True)
NewRoulette(w) ==
    [type |-> "roulette", owner_id |-> Owner, is_open |-> TRUE, closed_at |-> None,
     winners_count |-> w, prevent_multiple_votes |-> TRUE, star_to_vote_ratio |-> 2,
     anti_bot_enabled |-> TRUE]

Init ==
    /\ \E w \in 1..MaxWinners : contest = NewRoulette(w)
    /\ participants = <<>>
    /\ app_lock = FALSE
    /\ inproc_locks = [p \in Procs |-> FALSE]
    /\ dpc = [t \in Triggers |-> "idle"]
    /\ dloc = [t \in Triggers |-> DrawIdle]
    /\ jpc = [q \in JoinReqs |-> "idle"]
    /\ jloc = [q \in JoinReqs |-> JoinIdle]
    /\ announcements = <<>>
    /\ notified = <<>>
    /\ failures = 0
    /\ clock = 0
    /\ du = DuIdle
    /\ NoVoting
    /\ NoOther

----------------------------------------------------------------------------
(* routers/roulette.py: _is_admin_in_channel and the owner test *)

\* r.owner_id == cb.from_user.id or await _is_admin_in_channel(...)
Authorized(u) == u = contest.owner_id \/ u \in ChannelAdmins

----------------------------------------------------------------------------
(* routers/roulette.py: join *)

\* if not r or not r.is_open: answer "closed"; return
JoinStart(q) ==
    /\ jpc[q] = "idle"
    /\ \E u \in Joiners :
        IF ~contest.is_open
        THEN /\ jloc' = [jloc EXCEPT ![q] = [JoinIdle EXCEPT !.out = "closed"]]
             /\ jpc' = jpc
        ELSE /\ jloc' = [jloc EXCEPT ![q] = [user |-> u, existing |-> FALSE, out |-> "none"]]
             /\ jpc' = [jpc EXCEPT ![q] = "member"]
    /\ UNCHANGED <<contest, participants, app_lock, inproc_locks, dpc, dloc,
                   announcements, notified, failures, clock, du, voteVars, otherVars>>

\* get_chat_member(r.channel_id, user): status in member/creator/administrator,
\* else (or on TelegramForbiddenError/BadRequest/RetryAfter) answer and return
JoinMember(q) ==
    /\ jpc[q] = "member"
    /\ \E is_member \in BOOLEAN :
        IF is_member
        THEN /\ jpc' = [jpc EXCEPT ![q] = "existing"]
             /\ jloc' = jloc
        ELSE /\ jpc' = [jpc EXCEPT ![q] = "idle"]
             /\ jloc' = [jloc EXCEPT ![q] = [JoinIdle EXCEPT !.out = "not_subscribed"]]
    /\ UNCHANGED <<contest, participants, app_lock, inproc_locks, dpc, dloc,
                   announcements, notified, failures, clock, du, voteVars, otherVars>>

\* existing = select(Participant).where(roulette_id, user_id).scalar_one_or_none()
JoinExisting(q) ==
    /\ jpc[q] = "existing"
    /\ jloc' = [jloc EXCEPT ![q].existing = jloc[q].user \in SeqToSet(participants)]
    /\ jpc' = [jpc EXCEPT ![q] = "insert"]
    /\ UNCHANGED <<contest, participants, app_lock, inproc_locks, dpc, dloc,
                   announcements, notified, failures, clock, du, voteVars, otherVars>>

\* uq_roulette_user: the insert fails when the (roulette, user) row exists
InsertParticipant(rows, u) == IF u \in SeqToSet(rows) THEN rows ELSE Append(rows, u)

\* if existing is None: session.add(Participant(...)); commit
\* except IntegrityError: rollback.  Then answer "joined".
JoinInsert(q) ==
    /\ jpc[q] = "insert"
    /\ participants' = IF jloc[q].existing THEN participants
                       ELSE InsertParticipant(participants, jloc[q].user)
    /\ jloc' = [jloc EXCEPT ![q] = [JoinIdle EXCEPT !.out =
                   IF jloc[q].existing \/ jloc[q].user \in SeqToSet(participants)
                   THEN "joined_noop" ELSE "joined"]]
    /\ jpc' = [jpc EXCEPT ![q] = "idle"]
    /\ UNCHANGED <<contest, app_lock, inproc_locks, dpc, dloc,
                   announcements, notified, failures, clock, du, voteVars, otherVars>>

----------------------------------------------------------------------------
(* routers/roulette.py: pause, resume *)

\* r.is_open = False; commit -- whoever asks
pause_unchecked(u) ==
    /\ contest' = [contest EXCEPT !.is_open = FALSE]
    /\ UNCHANGED <<participants, app_lock, inproc_locks, dpc, dloc, jpc, jloc,
                   announcements, notified, failures, clock, du, voteVars, otherVars>>

\* r.is_open = False; commit -- only for the owner or a channel admin
pause(u) ==
    /\ contest' = IF Authorized(u) THEN [contest EXCEPT !.is_open = FALSE] ELSE contest
    /\ UNCHANGED <<participants, app_lock, inproc_locks, dpc, dloc, jpc, jloc,
                   announcements, notified, failures, clock, du, voteVars, otherVars>>

\* r.is_open = True; commit -- only for the owner or a channel admin
resume(u) ==
    /\ contest' = IF Authorized(u) THEN [contest EXCEPT !.is_open = TRUE] ELSE contest
    /\ UNCHANGED <<participants, app_lock, inproc_locks, dpc, dloc, jpc, jloc,
                   announcements, notified, failures, clock, du, voteVars, otherVars>>

----------------------------------------------------------------------------
(* routers/roulette.py: draw *)

\* a return that leaves the in-process lock entry in place
PopInprocSkipped(t) == inproc_locks

\* finally: _inproc_locks.pop(lock_key, None) runs as soon as the try block
\* is left; the delete of the AppSetting row follows after an await (DrawUnlock)
PopInproc(t) == [inproc_locks EXCEPT ![dloc[t].proc] = FALSE]

\* return (or raise) inside the try block with the given outcome
LeaveTry(t, outcome) ==
    /\ dloc' = [dloc EXCEPT ![t] = [DrawIdle EXCEPT !.out = outcome]]
    /\ inproc_locks' = PopInproc(t)
    /\ dpc' = [dpc EXCEPT ![t] = "unlock"]

\* if _inproc_locks.get(lock_key): answer "in progress"; return
\* _inproc_locks[lock_key] = True
\* Invocation t arrives at one of the bot processes P.  Invocations are numbered
\* in order of arrival and the first one names its process 1 (processes are alike).
DrawStart(t, P) ==
    /\ dpc[t] = "idle"
    /\ \A s \in Triggers : s < t => dpc[s] # "idle"
    /\ \E p \in P :
        /\ t = 1 => p = 1
        /\ IF inproc_locks[p]
           THEN /\ dloc' = [dloc EXCEPT ![t] = [DrawIdle EXCEPT !.out = "in_progress"]]
                /\ dpc' = [dpc EXCEPT ![t] = "done"]
                /\ inproc_locks' = inproc_locks
           ELSE /\ dloc' = [dloc EXCEPT ![t] = [DrawIdle EXCEPT !.proc = p]]
                /\ dpc' = [dpc EXCEPT ![t] = "read"]
                /\ inproc_locks' = [inproc_locks EXCEPT ![p] = TRUE]
    /\ UNCHANGED <<contest, participants, app_lock, jpc, jloc,
                   announcements, notified, failures, clock, du, voteVars, otherVars>>

\* r = select(Roulette).where(Roulette.id == roulette_id).scalar_one_or_none()
DrawRead(t) ==
    /\ dpc[t] = "read"
    /\ dloc' = [dloc EXCEPT ![t].r_is_open = contest.is_open,
                            ![t].r_closed_at = contest.closed_at]
    /\ dpc' = [dpc EXCEPT ![t] = "lock"]
    /\ UNCHANGED <<contest, participants, app_lock, inproc_locks, jpc, jloc,
                   announcements, notified, failures, clock, du, voteVars, otherVars>>

\* session.add(AppSetting(key="draw:in_progress:<id>")); commit
\* except IntegrityError: rollback; answer "in progress"; return
DrawLock(t) ==
    /\ dpc[t] = "lock"
    /\ IF app_lock
       THEN /\ LeaveTry(t, "in_progress")
            /\ app_lock' = app_lock
       ELSE /\ app_lock' = TRUE
            /\ dpc' = [dpc EXCEPT ![t] = "auth"]
            /\ UNCHANGED <<dloc, inproc_locks>>
    /\ UNCHANGED <<contest, participants, jpc, jloc,
                   announcements, notified, failures, clock, du, voteVars, otherVars>>

\* authorized = owner or channel admin (cb.from_user is u), else "unauthorized";
\* if r.is_open: "pause first"; if r.closed_at is not None: "already drawn"
DrawAuth(t) ==
    /\ dpc[t] = "auth"
    /\ \E u \in DrawUsers :
        IF ~Authorized(u) THEN LeaveTry(t, "unauthorized")
        ELSE IF dloc[t].r_is_open THEN LeaveTry(t, "still_open")
        ELSE IF dloc[t].r_closed_at # None THEN LeaveTry(t, "already_drawn")
        ELSE /\ dpc' = [dpc EXCEPT ![t] = "recheck"]
             /\ UNCHANGED <<dloc, inproc_locks>>
    /\ UNCHANGED <<contest, participants, app_lock, jpc, jloc,
                   announcements, notified, failures, clock, du, voteVars, otherVars>>

\* existing_draw = select(Roulette).where(id == r.id, closed_at.is_not(None))
DrawRecheck(t) ==
    /\ dpc[t] = "recheck"
    /\ IF contest.closed_at # None THEN LeaveTry(t, "already_drawn")
       ELSE /\ dpc' = [dpc EXCEPT ![t] = "rows"]
            /\ UNCHANGED <<dloc, inproc_locks>>
    /\ UNCHANGED <<contest, participants, app_lock, jpc, jloc,
                   announcements, notified, failures, clock, du, voteVars, otherVars>>

\* rows = select(Participant.user_id).where(roulette_id == r.id).all()
DrawRowsAny(t) ==
    /\ dpc[t] = "rows"
    /\ dloc' = [dloc EXCEPT ![t].rows = participants]
    /\ dpc' = [dpc EXCEPT ![t] = "countdown"]
    /\ UNCHANGED inproc_locks
    /\ UNCHANGED <<contest, participants, app_lock, jpc, jloc,
                   announcements, notified, failures, clock, du, voteVars, otherVars>>

\* rows = select(Participant.user_id).where(roulette_id == r.id).all()
\* if len(rows) == 0: answer "no participants"; return
DrawRows(t) ==
    /\ dpc[t] = "rows"
    /\ IF participants = <<>> THEN LeaveTry(t, "no_participants")
       ELSE /\ dloc' = [dloc EXCEPT ![t].rows = participants]
            /\ dpc' = [dpc EXCEPT ![t] = "countdown"]
            /\ UNCHANGED inproc_locks
    /\ UNCHANGED <<contest, participants, app_lock, jpc, jloc,
                   announcements, notified, failures, clock, du, voteVars, otherVars>>

\* send_message(prep_text) and the countdown edits: only TelegramBadRequest and
\* TelegramForbiddenError are suppressed, any other error leaves the try block.
\* Then winners_ids = draw_unique(rows, r.winners_count) and the best-effort
\* notification of every winner.
DrawCountdown(t) ==
    /\ dpc[t] = "countdown"
    /\ \/ /\ failures < MaxFailures
          /\ failures' = failures + 1
          /\ LeaveTry(t, "countdown_failed")
          /\ UNCHANGED notified
       \/ \E w \in draw_unique(dloc[t].rows, contest.winners_count) :
            /\ dloc' = [dloc EXCEPT ![t].winners = w]
            /\ notified' = Append(notified, w)
            /\ dpc' = [dpc EXCEPT ![t] = "announce"]
            /\ UNCHANGED <<inproc_locks, failures>>
    /\ UNCHANGED <<contest, participants, app_lock, jpc, jloc,
                   announcements, clock, du, voteVars, otherVars>>

\* edit_message_text(announce_text): posted, or TelegramBadRequest/Forbidden
\* suppressed (nothing posted), or another error leaves the try block
DrawAnnounce(t) ==
    /\ dpc[t] = "announce"
    /\ \/ /\ announcements' = Append(announcements, dloc[t].winners)
          /\ dpc' = [dpc EXCEPT ![t] = "close"]
          /\ UNCHANGED <<dloc, inproc_locks, failures>>
       \/ /\ dpc' = [dpc EXCEPT ![t] = "close"]
          /\ UNCHANGED <<dloc, inproc_locks, announcements, failures>>
       \/ /\ failures < MaxFailures
          /\ failures' = failures + 1
          /\ LeaveTry(t, "announce_failed")
          /\ UNCHANGED announcements
    /\ UNCHANGED <<contest, participants, app_lock, jpc, jloc, notified, clock, du, voteVars, otherVars>>

\* the ORM flush writes an attribute only if it differs from the loaded value
Flush(row, attr, loaded, value) ==
    IF value # loaded THEN [row EXCEPT ![attr] = value] ELSE row

\* r.closed_at = r.closed_at or datetime.utcnow(); r.is_open = False; commit
DrawClose(t) ==
    /\ dpc[t] = "close"
    /\ clock' = clock + 1
    /\ contest' = Flush(Flush(contest, "closed_at", dloc[t].r_closed_at,
                              IF dloc[t].r_closed_at # None THEN dloc[t].r_closed_at
                              ELSE clock + 1),
                        "is_open", dloc[t].r_is_open, FALSE)
    /\ LeaveTry(t, "done")
    /\ UNCHANGED <<participants, app_lock, jpc, jloc, announcements, notified, failures, du, voteVars, otherVars>>

\* finally: delete(AppSetting).where(key == "draw:in_progress:<id>"); commit
DrawUnlock(t) ==
    /\ dpc[t] = "unlock"
    /\ app_lock' = FALSE
    /\ dpc' = [dpc EXCEPT ![t] = "done"]
    /\ UNCHANGED <<contest, participants, inproc_locks, dloc, jpc, jloc,
                   announcements, notified, failures, clock, du, voteVars, otherVars>>

----------------------------------------------------------------------------
(* db/models.py: Contest -- a VOTE or QUIZ contest row *)

\* Contest columns: is_open default True, closed_at NULL; the creation flow of
\* VOTE and QUIZ contests is not in the sources, so the settings columns
\* prevent_multiple_votes and star_to_vote_ratio range over their domains
NewContest(type, w, prevent, ratio) ==
    [type |-> type, owner_id |-> Owner, is_open |-> TRUE, closed_at |-> None,
     winners_count |-> w, prevent_multiple_votes |-> prevent, star_to_vote_ratio |-> ratio,
     anti_bot_enabled |-> TRUE]

InitVote ==
    /\ \/ \E prevent \in BOOLEAN, ratio \in 0..MaxRatio :
              contest = NewContest("vote", 1, prevent, ratio)
       \/ contest = NewContest("quiz", 1, TRUE, 2)
    /\ announcements = <<>>
    /\ clock = 0
    /\ NoRaffle
    /\ du = DuIdle
    /\ NoVoting
    /\ NoOther

----------------------------------------------------------------------------
(* routers/voting.py: start_registration, reg_use_name_callback;
   services/voting.py: register_contestant *)

HasEntry(u) == \E e \in 1..Len(entries) : entries[e].user_id = u

\* entry = get_entry(contest_id, user): if entry: answer "already registered";
\* the subscription and membership checks; then the name prompt with the
\* "use my account name" button
start_registration(u) ==
    /\ contest.type = "vote"
    /\ IF HasEntry(u)
       THEN /\ reg_out' = [reg_out EXCEPT ![u] = "already_registered"]
            /\ UNCHANGED reg_offered
       ELSE \E is_member \in BOOLEAN :
              /\ reg_offered' = IF is_member THEN reg_offered \cup {u} ELSE reg_offered
              /\ reg_out' = [reg_out EXCEPT ![u] = IF is_member THEN "offered" ELSE "not_member"]
    /\ UNCHANGED <<contest, announcements, clock, raffleVars,
                   entries, votes, vpc, vloc, vcalls, fpc, floc, vd_out, otherVars>>

\* ContestEntry(contest_id, user_id, entry_name, unique_code); add; flush; commit
\* uq_contest_user: flush raises IntegrityError when the user has an entry
register_contestant(u) ==
    IF HasEntry(u)
    THEN /\ reg_out' = [reg_out EXCEPT ![u] = "error"]
         /\ UNCHANGED entries
    ELSE /\ entries' = Append(entries, [user_id |-> u, votes_count |-> 0, stars_received |-> 0])
         /\ reg_out' = [reg_out EXCEPT ![u] = "registered"]

\* entry = await service.register_contestant(contest_id, cb.from_user.id, name)
reg_use_name_callback(u) ==
    /\ contest.type = "vote"
    /\ u \in reg_offered
    /\ register_contestant(u)
    /\ UNCHANGED <<contest, announcements, clock, raffleVars,
                   votes, reg_offered, vpc, vloc, vcalls, fpc, floc, vd_out, otherVars>>

----------------------------------------------------------------------------
(* services/voting.py: add_vote, called by handle_normal_vote (is_stars False,
   stars_amount 0) and by handle_successful_payment (is_stars True) *)

VotesOf(voter) == {i \in 1..Len(votes) : votes[i].voter_id = voter}

VoteReturn(v, outcome) ==
    /\ vloc' = [vloc EXCEPT ![v] = [VoteIdle EXCEPT !.out = outcome]]
    /\ vpc' = [vpc EXCEPT ![v] = "idle"]

\* contest = await contest_repo.get_by_id(contest_id)
\* if not contest or not contest.is_open: return False
VoteBegin(v, E) ==
    /\ contest.type = "vote"
    /\ vpc[v] = "idle"
    /\ vcalls < MaxVoteCalls
    /\ vcalls' = vcalls + 1
    /\ \E voter \in Voters, e \in E, amount \in 0..MaxStars :
        IF ~contest.is_open THEN VoteReturn(v, "false")
        ELSE /\ vloc' = [vloc EXCEPT ![v] =
                    [VoteIdle EXCEPT !.voter = voter, !.entry = e,
                                     !.is_stars = amount > 0, !.stars_amount = amount,
                                     !.prevent = contest.prevent_multiple_votes,
                                     !.ratio = contest.star_to_vote_ratio]]
             /\ vpc' = [vpc EXCEPT ![v] = "has_voted"]
    /\ UNCHANGED <<contest, announcements, clock, raffleVars,
                   entries, votes, reg_offered, reg_out, fpc, floc, vd_out, otherVars>>

\* a call that names an entry of the contest it names
VoteStart(v) == VoteBegin(v, EntryIds)

\* the id of the other contest's entry
ForeignEntry == Cardinality(Registrants) + 1

\* a call that names the contest and an entry of the other contest
VoteStartForeign(v) == VoteBegin(v, {ForeignEntry})

\* VoteRepository.has_voted: select(Vote).where(contest_id, voter_id)
\* .scalar_one_or_none() is not None -- raises MultipleResultsFound on two rows
has_voted(voter) ==
    IF Cardinality(VotesOf(voter)) > 1 THEN "raise"
    ELSE IF Cardinality(VotesOf(voter)) = 1 THEN "true" ELSE "false"

\* if not is_stars and contest.prevent_multiple_votes:
\*     if await vote_repo.has_voted(contest_id, voter_id): return False
VoteHasVoted(v) ==
    /\ vpc[v] = "has_voted"
    /\ IF ~vloc[v].is_stars /\ vloc[v].prevent /\ has_voted(vloc[v].voter) = "raise"
       THEN VoteReturn(v, "error")
       ELSE IF ~vloc[v].is_stars /\ vloc[v].prevent /\ has_voted(vloc[v].voter) = "true"
       THEN VoteReturn(v, "false")
       ELSE /\ vpc' = [vpc EXCEPT ![v] = "entry"]
            /\ UNCHANGED vloc
    /\ UNCHANGED <<contest, announcements, clock, raffleVars,
                   entries, votes, reg_offered, reg_out, vcalls, fpc, floc, vd_out, otherVars>>

\* entry = await entry_repo.get_by_id(entry_id); if not entry: return False
VoteEntry(v) ==
    /\ vpc[v] = "entry"
    /\ IF vloc[v].entry = ForeignEntry
       THEN /\ vloc' = [vloc EXCEPT ![v].votes_count = xentry.votes_count,
                                    ![v].stars_received = xentry.stars_received]
            /\ vpc' = [vpc EXCEPT ![v] = "commit"]
       ELSE IF vloc[v].entry > Len(entries) THEN VoteReturn(v, "false")
       ELSE /\ vloc' = [vloc EXCEPT ![v].votes_count = entries[vloc[v].entry].votes_count,
                                    ![v].stars_received = entries[vloc[v].entry].stars_received]
            /\ vpc' = [vpc EXCEPT ![v] = "commit"]
    /\ UNCHANGED <<contest, announcements, clock, raffleVars,
                   entries, votes, reg_offered, reg_out, vcalls, fpc, floc, vd_out, otherVars>>

\* stars_amount * (contest.star_to_vote_ratio or 2)
StarVotes(amount, ratio) == amount * (IF ratio = 0 THEN 2 ELSE ratio)

\* session.add(Vote(...))
\* if is_stars: entry.stars_received += stars_amount
\*               entry.votes_count += stars_amount * (ratio or 2)
\* else: entry.votes_count += 1
\* await session.commit(); return True
VoteCommit(v) ==
    /\ vpc[v] = "commit"
    /\ votes' = Append(votes, [entry_id |-> vloc[v].entry, voter_id |-> vloc[v].voter,
                               is_stars |-> vloc[v].is_stars,
                               stars_amount |-> vloc[v].stars_amount])
    /\ LET counted(row) ==
               Flush(Flush(row, "votes_count", vloc[v].votes_count,
                           vloc[v].votes_count +
                               (IF vloc[v].is_stars
                                THEN StarVotes(vloc[v].stars_amount, vloc[v].ratio) ELSE 1)),
                     "stars_received", vloc[v].stars_received,
                     vloc[v].stars_received
                         + (IF vloc[v].is_stars THEN vloc[v].stars_amount ELSE 0))
       IN  IF vloc[v].entry = ForeignEntry
           THEN xentry' = counted(xentry) /\ UNCHANGED entries
           ELSE /\ entries' = [entries EXCEPT ![vloc[v].entry] = counted(@)]
                /\ UNCHANGED xentry
    /\ VoteReturn(v, "true")
    /\ UNCHANGED <<contest, announcements, clock, raffleVars,
                   reg_offered, reg_out, vcalls, fpc, floc, vd_out,
                   ledgerVars, createVars, gateVars, top_entries, wizardVars, flowVars, quizVars>>

----------------------------------------------------------------------------
(* services/voting.py: get_top_entries; routers/voting.py: handle_vote_draw *)

\* ORDER BY votes_count DESC: the orders in which a database may return the
\* entry ids; rows with equal votes_count come in any order
Ranked(es) ==
    {p \in [1..Len(es) -> 1..Len(es)] :
        /\ \A i, j \in 1..Len(es) : i # j => p[i] # p[j]
        /\ \A i \in 1..(Len(es) - 1) : es[p[i]].votes_count >= es[p[i + 1]].votes_count}

\* select(ContestEntry)...order_by(desc(votes_count)).limit(limit)
get_top_entries(es, limit) ==
    {SubSeq(p, 1, IF limit < Len(es) THEN limit ELSE Len(es)) : p \in Ranked(es)}

\* if not c or c.closed_at: "already closed"; if c.is_open: "pause first";
\* if not top_entries: "no contestants"; then, in the loop over the top
\* entries, "with asyncio.suppress(Exception)" raises AttributeError (asyncio
\* has no suppress): the handler ends before announcing or stamping closed_at
handle_vote_draw(u) ==
    /\ contest.type = "vote"
    /\ vd_out' = IF contest.closed_at # None THEN "already_closed"
                 ELSE IF contest.is_open THEN "still_open"
                 ELSE IF entries = <<>> THEN "no_entries"
                 ELSE "error"
    /\ IF contest.closed_at = None /\ ~contest.is_open
       THEN top_entries' \in get_top_entries(entries, contest.winners_count)
       ELSE top_entries' = top_entries
    /\ UNCHANGED <<contest, announcements, clock, raffleVars,
                   entries, votes, reg_offered, reg_out, vpc, vloc, vcalls, fpc, floc,
                   ledgerVars, createVars, gateVars, xentry, wizardVars, flowVars, quizVars>>

----------------------------------------------------------------------------
(* routers/quiz.py: stop_quiz, finish_quiz *)

\* if c and c.owner_id == cb.from_user.id: c.is_open = False; commit
stop_quiz(u) ==
    /\ contest.type = "quiz"
    /\ contest' = IF u = contest.owner_id THEN [contest EXCEPT !.is_open = FALSE] ELSE contest
    /\ UNCHANGED <<announcements, clock, raffleVars, voteVars, otherVars>>

FinishReturn(f, outcome) ==
    /\ floc' = [floc EXCEPT ![f] = [FinishIdle EXCEPT !.out = outcome]]
    /\ fpc' = [fpc EXCEPT ![f] = "done"]

\* c = await session.get(Contest, contest_id)
\* if not c or (c.owner_id != user and user not in runtime.admin_ids): for a
\* user other than the owner the second operand is evaluated and raises
\* AttributeError (RuntimeContext has the fields bot_username, bot_id, redis and
\* no admin_ids): the handler ends there
\* winners = await service.get_leaderboard(contest_id, limit=c.winners_count)
FinishStart(f) ==
    /\ contest.type = "quiz"
    /\ fpc[f] = "idle"
    /\ \A g \in Finishes : g < f => fpc[g] # "idle"
    /\ \E u \in FinishUsers :
        IF u # contest.owner_id THEN FinishReturn(f, "error")
        ELSE /\ floc' = [floc EXCEPT ![f].user = u, ![f].r_is_open = contest.is_open]
             /\ fpc' = [fpc EXCEPT ![f] = "send"]
    /\ UNCHANGED <<contest, announcements, clock, raffleVars,
                   entries, votes, reg_offered, reg_out, vpc, vloc, vcalls, vd_out, otherVars>>

\* await cb.bot.send_message(c.channel_id, text): the results are posted, or the
\* call raises and the handler ends
FinishSend(f) ==
    /\ fpc[f] = "send"
    /\ \/ /\ announcements' = Append(announcements, <<>>)
          /\ fpc' = [fpc EXCEPT ![f] = "commit"]
          /\ UNCHANGED <<floc, failures>>
       \/ /\ failures < MaxFailures
          /\ failures' = failures + 1
          /\ FinishReturn(f, "send_failed")
          /\ UNCHANGED announcements
    /\ UNCHANGED <<contest, clock, participants, app_lock, inproc_locks, dpc, dloc,
                   jpc, jloc, notified, du,
                   entries, votes, reg_offered, reg_out, vpc, vloc, vcalls, vd_out, otherVars>>

\* c.is_open = False; c.closed_at = datetime.now(timezone.utc); commit
FinishCommit(f) ==
    /\ fpc[f] = "commit"
    /\ clock' = clock + 1
    /\ contest' = Flush([contest EXCEPT !.closed_at = clock + 1],
                        "is_open", floc[f].r_is_open, FALSE)
    /\ FinishReturn(f, "done")
    /\ UNCHANGED <<announcements, raffleVars,
                   entries, votes, reg_offered, reg_out, vpc, vloc, vcalls, vd_out, otherVars>>

----------------------------------------------------------------------------
(* routers/quiz.py: _run_quiz_session, handle_quiz_answer;
   services/quiz.py: set_active_question, submit_fastest_answer *)

QuizFrame == UNCHANGED <<contestVars, ledgerVars, createVars, gateVars, boardVars,
                         wizardVars, flowVars>>

\* a task that reaches announce_quiz_results after the last question
\* (c.is_open = False; c.closed_at = now; commit)
_run_quiz_session_finishing ==
    /\ contest.type = "quiz"
    /\ contest.is_open
    /\ qsess' = "finished"
    /\ clock' = clock + 1
    /\ contest' = [contest EXCEPT !.is_open = FALSE, !.closed_at = clock + 1]
    /\ UNCHANGED <<announcements, raffleVars, voteVars, ledgerVars, createVars, gateVars,
                   boardVars, wizardVars, flowVars,
                   redis, score, posted, credits, expiries, apc, aloc>>

\* service = QuizService(session, redis=runtime.redis)
\* c = await service.get_contest(contest_id): QuizService defines add_question,
\* bulk_add_questions, get_contest_questions, get_next_question,
\* set_active_question, submit_fastest_answer and get_leaderboard, and no
\* get_contest: the call raises AttributeError and the task ends before it
\* reads the contest, posts a question or reaches announce_quiz_results
_run_quiz_session ==
    /\ contest.type = "quiz"
    /\ qsess' = "error"
    /\ UNCHANGED <<contestVars, ledgerVars, createVars, gateVars, boardVars, wizardVars,
                   flowVars, redis, score, posted, credits, expiries, apc, aloc>>

\* Question.points of the questions of the quiz
Points(q) == q

\* redis.set("quiz:<id>:active", question_id, ex=3600)
\* redis.delete("quiz:<id>:solved")
\* (called once for each question of the quiz, when the question is posted)
set_active_question(q) ==
    /\ contest.type = "quiz"
    /\ \A i \in 1..Len(posted) : posted[i] # q
    /\ redis' = [active |-> q, solved |-> 0]
    /\ posted' = Append(posted, q)
    /\ QuizFrame
    /\ UNCHANGED <<qsess, score, credits, expiries, apc, aloc>>

\* a key set with ex= is dropped by Redis when its time is over: "solved" after
\* 60 seconds, "active" after 3600 seconds
KeyExpires ==
    /\ expiries < MaxExpiries
    /\ expiries' = expiries + 1
    /\ \/ redis.solved # 0 /\ redis' = [redis EXCEPT !.solved = 0]
       \/ redis.active # 0 /\ redis.solved = 0 /\ redis' = [redis EXCEPT !.active = 0]
    /\ QuizFrame
    /\ UNCHANGED <<qsess, score, posted, credits, apc, aloc>>

AnswerReturn(a, outcome) ==
    /\ aloc' = [aloc EXCEPT ![a] = [AnswerIdle EXCEPT !.out = outcome]]
    /\ apc' = [apc EXCEPT ![a] = "done"]

AnswerFrame == QuizFrame /\ UNCHANGED <<qsess, posted, expiries>>

\* handle_quiz_answer: select(Contest) where channel_id, type == QUIZ, is_open;
\* if c: submit_fastest_answer(c.id, message.from_user.id, message.text)
AnswerStart(a) ==
    /\ contest.type = "quiz"
    /\ apc[a] = "idle"
    /\ \A b \in AnswerReqs : b < a => apc[b] # "idle"
    /\ \E u \in Answerers, text \in Questions :
        IF ~contest.is_open THEN AnswerReturn(a, "no_quiz")
        ELSE /\ aloc' = [aloc EXCEPT ![a].user = u, ![a].answer = text]
             /\ apc' = [apc EXCEPT ![a] = "active"]
    /\ AnswerFrame
    /\ UNCHANGED <<redis, score, credits>>

\* active_qid = await redis.get("quiz:<id>:active"); if not active_qid: return None
AnswerActive(a) ==
    /\ apc[a] = "active"
    /\ IF redis.active = 0 THEN AnswerReturn(a, "none")
       ELSE /\ aloc' = [aloc EXCEPT ![a].q = redis.active]
            /\ apc' = [apc EXCEPT ![a] = "solved"]
    /\ AnswerFrame
    /\ UNCHANGED <<redis, score, credits>>

\* if await redis.get("quiz:<id>:solved"): return None
AnswerSolved(a) ==
    /\ apc[a] = "solved"
    /\ IF redis.solved # 0 THEN AnswerReturn(a, "none")
       ELSE apc' = [apc EXCEPT ![a] = "question"] /\ UNCHANGED aloc
    /\ AnswerFrame
    /\ UNCHANGED <<redis, score, credits>>

\* q = await session.get(Question, int(active_qid))
\* is_correct = any(answer.strip().lower() == v.strip().lower() for v in variants):
\* the answer text of question k is written k
AnswerQuestion(a) ==
    /\ apc[a] = "question"
    /\ IF aloc[a].answer # aloc[a].q THEN AnswerReturn(a, "none")
       ELSE apc' = [apc EXCEPT ![a] = "lock"] /\ UNCHANGED aloc
    /\ AnswerFrame
    /\ UNCHANGED <<redis, score, credits>>

\* is_first = await redis.set("quiz:<id>:solved", user_id, nx=True, ex=60)
AnswerLock(a) ==
    /\ apc[a] = "lock"
    /\ IF redis.solved # 0
       THEN AnswerReturn(a, "none") /\ UNCHANGED redis
       ELSE /\ redis' = [redis EXCEPT !.solved = aloc[a].user]
            /\ apc' = [apc EXCEPT ![a] = "entry"]
            /\ UNCHANGED aloc
    /\ AnswerFrame
    /\ UNCHANGED <<score, credits>>

\* entry = await entry_repo.get_entry(contest_id, user_id); a missing row is
\* added with score 0 and flushed
AnswerEntry(a) ==
    /\ apc[a] = "entry"
    /\ aloc' = [aloc EXCEPT ![a].score = score[aloc[a].user]]
    /\ apc' = [apc EXCEPT ![a] = "commit"]
    /\ AnswerFrame
    /\ UNCHANGED <<redis, score, credits>>

\* the posting of question q
PostingOf(q) == CHOOSE i \in 1..Len(posted) : posted[i] = q

\* entry.score += q.points; commit; return q
AnswerCommit(a) ==
    /\ apc[a] = "commit"
    /\ score' = [score EXCEPT ![aloc[a].user] = aloc[a].score + Points(aloc[a].q)]
    /\ credits' = Append(credits, [post |-> PostingOf(aloc[a].q), user |-> aloc[a].user,
                                   points |-> Points(aloc[a].q)])
    /\ AnswerReturn(a, "credited")
    /\ AnswerFrame
    /\ UNCHANGED redis

----------------------------------------------------------------------------
(* Specification of a VOTE or QUIZ contest *)

\* Registration, pause/resume and the finalize requests of a VOTE or QUIZ contest.
NextContest ==
    \/ \E u \in Users : pause(u)
    \/ \E u \in Users : resume(u)
    \/ \E u \in Registrants : start_registration(u)
    \/ \E u \in Registrants : reg_use_name_callback(u)
    \/ \E u \in Users : handle_vote_draw(u)
    \/ \E u \in Users : stop_quiz(u)
    \/ \E f \in Finishes : FinishStart(f)
    \/ \E f \in Finishes : FinishSend(f)
    \/ \E f \in Finishes : FinishCommit(f)
    \/ _run_quiz_session

SpecContest == InitVote /\ [][NextContest]_vars

\* An open QUIZ contest: questions are made active and users answer, while the
\* owner pauses and resumes the contest.
InitQuiz ==
    /\ contest = NewContest("quiz", 1, TRUE, 2)
    /\ announcements = <<>>
    /\ clock = 0
    /\ NoRaffle
    /\ du = DuIdle
    /\ NoVoting
    /\ NoOther

NextQuiz ==
    \/ \E q \in Questions : set_active_question(q)
    \/ KeyExpires
    \/ \E a \in AnswerReqs : AnswerStart(a)
    \/ \E a \in AnswerReqs : AnswerActive(a)
    \/ \E a \in AnswerReqs : AnswerSolved(a)
    \/ \E a \in AnswerReqs : AnswerQuestion(a)
    \/ \E a \in AnswerReqs : AnswerLock(a)
    \/ \E a \in AnswerReqs : AnswerEntry(a)
    \/ \E a \in AnswerReqs : AnswerCommit(a)
    \/ \E u \in Users : stop_quiz(u)
    \/ \E u \in Users : resume(u)

SpecQuiz == InitQuiz /\ [][NextQuiz]_vars

\* A VOTE contest after the registration of user 2.
InitPoll ==
    /\ \E prevent \in BOOLEAN, ratio \in 0..MaxRatio :
           contest = NewContest("vote", 1, prevent, ratio)
    /\ announcements = <<>>
    /\ clock = 0
    /\ NoRaffle
    /\ du = DuIdle
    /\ NoRequests
    /\ NoOther
    /\ entries = <<[user_id |-> 2, votes_count |-> 0, stars_received |-> 0]>>

\* add_vote calls interleaved with pause and resume.
NextVote ==
    \/ \E u \in Users : pause(u)
    \/ \E u \in Users : resume(u)
    \/ \E v \in VoteReqs : VoteStart(v)
    \/ \E v \in VoteReqs : VoteHasVoted(v)
    \/ \E v \in VoteReqs : VoteEntry(v)
    \/ \E v \in VoteReqs : VoteCommit(v)

SpecVote == InitPoll /\ [][NextVote]_vars

\* add_vote calls that name the open contest and the entry of another contest
NextForeignVote ==
    \/ \E u \in Users : pause(u)
    \/ \E u \in Users : resume(u)
    \/ \E v \in VoteReqs : VoteStartForeign(v)
    \/ \E v \in VoteReqs : VoteHasVoted(v)
    \/ \E v \in VoteReqs : VoteEntry(v)
    \/ \E v \in VoteReqs : VoteCommit(v)

SpecForeignVote == InitPoll /\ [][NextForeignVote]_vars

----------------------------------------------------------------------------
(* db/repositories.py: FeatureAccessRepository; services/payments.py *)

\* grant_monthly(..., days: int = 30)
MonthDays == 30

LedgerReturn(e, outcome) ==
    /\ eloc' = [eloc EXCEPT ![e] = [LedgerIdle EXCEPT !.out = outcome]]
    /\ epc' = [epc EXCEPT ![e] = "idle"]

LedgerFrame == UNCHANGED <<contestVars, createVars, gateVars, boardVars, wizardVars, flowVars, quizVars, now,
                          ticks>>

\* the clock advances by a day or by a month
Tick ==
    /\ ticks < MaxTicks
    /\ ticks' = ticks + 1
    /\ \E d \in {1, MonthDays} : now' = now + d
    /\ UNCHANGED <<contestVars, createVars, gateVars, boardVars, wizardVars, flowVars, quizVars, fa, epc,
                   eloc, ecalls>>

\* expires_at and expires_at > now
Active(row, t) == row.expires_at # None /\ row.expires_at > t

\* fa = await get_user_access(...); if not fa: return False
\* if expires_at and expires_at > now: return True
\* if fa.one_time_credits > 0:
\*     if consume_one_time: fa.one_time_credits -= 1; await commit  (HasAccessCommit)
\*     return True
\* return False
HasAccessStart(e) ==
    /\ epc[e] = "idle"
    /\ ecalls < MaxLedgerCalls
    /\ ecalls' = ecalls + 1
    /\ \E consume \in BOOLEAN :
        IF ~fa.exists THEN LedgerReturn(e, "false")
        ELSE IF Active(fa, now) THEN LedgerReturn(e, "true")
        ELSE IF fa.one_time_credits > 0
             THEN IF consume
                  THEN /\ eloc' = [eloc EXCEPT ![e] =
                              [LedgerIdle EXCEPT !.op = "has_access", !.consume = TRUE,
                                                 !.row = fa, !.at = now]]
                       /\ epc' = [epc EXCEPT ![e] = "commit"]
                  ELSE LedgerReturn(e, "true")
        ELSE LedgerReturn(e, "false")
    /\ UNCHANGED fa
    /\ LedgerFrame

\* fa.one_time_credits -= 1; await self.session.commit(); return True
HasAccessCommit(e) ==
    /\ epc[e] = "commit"
    /\ eloc[e].op = "has_access"
    /\ fa' = Flush(fa, "one_time_credits", eloc[e].row.one_time_credits,
                   eloc[e].row.one_time_credits - 1)
    /\ LedgerReturn(e, "true")
    /\ UNCHANGED ecalls
    /\ LedgerFrame

\* fa = await get_user_access(...); now = datetime.now(timezone.utc)
GrantMonthlyStart(e) ==
    /\ epc[e] = "idle"
    /\ ecalls < MaxLedgerCalls
    /\ ecalls' = ecalls + 1
    /\ eloc' = [eloc EXCEPT ![e] = [LedgerIdle EXCEPT !.op = "grant_monthly", !.row = fa,
                                                        !.at = now]]
    /\ epc' = [epc EXCEPT ![e] = "commit"]
    /\ UNCHANGED fa
    /\ LedgerFrame

\* base = max(base, now) if base else now
MonthlyBase(row, t) == IF row.expires_at # None THEN Max(row.expires_at, t) ELSE t

\* an insert that no unique constraint rejects adds a second row
InsertRowUnconstrained(row) ==
    IF fa.exists THEN [fa EXCEPT !.rows = @ + 1] ELSE [row EXCEPT !.exists = TRUE, !.rows = 1]

\* uq_user_feature: the insert of a second row for the user fails
InsertRow(row) == IF fa.exists THEN fa ELSE [row EXCEPT !.exists = TRUE, !.rows = 1]

\* if not fa: add FeatureAccess(expires_at = now + days)
\* else: fa.expires_at = base + timedelta(days); then commit
GrantMonthlyCommit(e) ==
    /\ epc[e] = "commit"
    /\ eloc[e].op = "grant_monthly"
    /\ IF ~eloc[e].row.exists
       THEN /\ fa' = InsertRow([NoRow EXCEPT !.expires_at = eloc[e].at + MonthDays])
            /\ LedgerReturn(e, IF fa.exists THEN "error" ELSE "granted")
       ELSE /\ fa' = Flush(fa, "expires_at", eloc[e].row.expires_at,
                           MonthlyBase(eloc[e].row, eloc[e].at) + MonthDays)
            /\ LedgerReturn(e, "granted")
    /\ UNCHANGED ecalls
    /\ LedgerFrame

\* fa = await repo.get_user_access(user_id, GATE_FEATURE_KEY)
GrantOneTimeStart(e) ==
    /\ epc[e] = "idle"
    /\ ecalls < MaxLedgerCalls
    /\ ecalls' = ecalls + 1
    /\ eloc' = [eloc EXCEPT ![e] = [LedgerIdle EXCEPT !.op = "grant_one_time", !.credits = 1,
                                                        !.row = fa, !.at = now]]
    /\ epc' = [epc EXCEPT ![e] = "commit"]
    /\ UNCHANGED fa
    /\ LedgerFrame

\* if not fa: add FeatureAccess(one_time_credits = credits)
\* else: fa.one_time_credits += credits; then commit
GrantOneTimeCommit(e) ==
    /\ epc[e] = "commit"
    /\ eloc[e].op = "grant_one_time"
    /\ IF ~eloc[e].row.exists
       THEN /\ fa' = InsertRow([NoRow EXCEPT !.one_time_credits = eloc[e].credits])
            /\ LedgerReturn(e, IF fa.exists THEN "error" ELSE "granted")
       ELSE /\ fa' = Flush(fa, "one_time_credits", eloc[e].row.one_time_credits,
                           eloc[e].row.one_time_credits + eloc[e].credits)
            /\ LedgerReturn(e, "granted")
    /\ UNCHANGED ecalls
    /\ LedgerFrame

----------------------------------------------------------------------------
(* routers/roulette.py: on_successful_payment; routers/voting.py:
   handle_successful_payment *)

\* configured prices and paid amounts, in stars
PriceLevels == 0..MaxPrice

\* PaymentType.MONTHLY, PaymentType.ONETIME, and any other invoice payload
Payloads == {"gate_monthly", "gate_onetime", "other"}

\* SuccessfulPayment.currency
Currencies == {"XTR", "USD"}

\* the handler calls grant_monthly / grant_one_time: the grant reads the row
PayGrant(e, op, payload, amount, currency) ==
    /\ eloc' = [eloc EXCEPT ![e] =
                  [LedgerIdle EXCEPT !.op = op, !.credits = IF op = "grant_one_time" THEN 1 ELSE 0,
                                     !.row = fa, !.at = now, !.payload = payload,
                                     !.amount = amount, !.currency = currency]]
    /\ epc' = [epc EXCEPT ![e] = "commit"]

\* if currency and currency.upper() != "XTR": answer "unsupported"; return
\* log_purchase (suppressed); m_price, o_price = configured prices
\* if payload == "gate_monthly" and m_price == 0: grant_monthly; return
\* if payload == "gate_onetime" and o_price == 0: grant_one_time; return
\* if payload == "gate_monthly" and amount >= m_price: grant_monthly
\* elif payload == "gate_onetime" and amount >= o_price: grant_one_time
\* else: answer "manual review"
on_successful_payment(e) ==
    /\ epc[e] = "idle"
    /\ ecalls < MaxLedgerCalls
    /\ ecalls' = ecalls + 1
    /\ \E payload \in Payloads, amount \in PriceLevels, currency \in Currencies :
        IF currency # "XTR" THEN LedgerReturn(e, "unsupported")
        ELSE IF payload = "gate_monthly" /\ (prices.month = 0 \/ amount >= prices.month)
             THEN PayGrant(e, "grant_monthly", payload, amount, currency)
        ELSE IF payload = "gate_onetime" /\ (prices.once = 0 \/ amount >= prices.once)
             THEN PayGrant(e, "grant_one_time", payload, amount, currency)
        ELSE LedgerReturn(e, "review")
    /\ UNCHANGED fa
    /\ LedgerFrame

\* payload not starting with "star_vote":
\* if payload == MONTHLY: grant_monthly; elif payload == ONETIME: grant_one_time
\* log_purchase
handle_successful_payment(e) ==
    /\ epc[e] = "idle"
    /\ ecalls < MaxLedgerCalls
    /\ ecalls' = ecalls + 1
    /\ \E payload \in Payloads, amount \in PriceLevels, currency \in Currencies :
        IF payload = "gate_monthly"
        THEN PayGrant(e, "grant_monthly", payload, amount, currency)
        ELSE IF payload = "gate_onetime"
             THEN PayGrant(e, "grant_one_time", payload, amount, currency)
        ELSE LedgerReturn(e, "logged")
    /\ UNCHANGED fa
    /\ LedgerFrame

----------------------------------------------------------------------------
(* Specification of successful-payment events of one user *)

InitPay ==
    /\ contest = NewRoulette(1)
    /\ announcements = <<>>
    /\ clock = 0
    /\ NoRaffle
    /\ du = DuIdle
    /\ NoVoting
    /\ NoLedger
    /\ NoCreate
    /\ NoGates
    /\ NoBoard
    /\ NoFlow
    /\ NoQuiz
    /\ prices \in [month : PriceLevels, once : PriceLevels]
    /\ invoices = 0
    /\ wstate = "none"
    /\ wdata = NoDraft
    /\ wloc = WizardIdle
    /\ user_admin = FALSE
    /\ bot_admin = FALSE

NextPay ==
    \/ \E e \in LedgerCalls : on_successful_payment(e)
    \/ \E e \in LedgerCalls : handle_successful_payment(e)
    \/ \E e \in LedgerCalls : GrantMonthlyCommit(e)
    \/ \E e \in LedgerCalls : GrantOneTimeCommit(e)

SpecPay == InitPay /\ [][NextPay]_vars

----------------------------------------------------------------------------
(* Specification of the entitlement ledger of one user *)

InitLedger ==
    /\ contest = NewRoulette(1)
    /\ announcements = <<>>
    /\ clock = 0
    /\ NoRaffle
    /\ du = DuIdle
    /\ NoVoting
    /\ NoOther

NextLedger ==
    \/ Tick
    \/ \E e \in LedgerCalls : HasAccessStart(e)
    \/ \E e \in LedgerCalls : HasAccessCommit(e)
    \/ \E e \in LedgerCalls : GrantMonthlyStart(e)
    \/ \E e \in LedgerCalls : GrantMonthlyCommit(e)
    \/ \E e \in LedgerCalls : GrantOneTimeStart(e)
    \/ \E e \in LedgerCalls : GrantOneTimeCommit(e)

SpecLedger == InitLedger /\ [][NextLedger]_vars

----------------------------------------------------------------------------
(* routers/roulette.py: confirm_create_cb, unlink_channel_apply *)

CreateFrame == UNCHANGED <<contestVars, gateVars, boardVars, wizardVars, flowVars, quizVars, now, ticks,
                           epc, eloc, ecalls>>

\* select(ChannelLink).where(owner_id == user, channel_id == channel_id)
HasLink(u, ch) ==
    \E i \in DOMAIN links : links[i].owner_id = u /\ links[i].channel_id = ch

\* select(ChannelLink).where(owner_id == user).order_by(id.desc()).first()
\* channel_id = link.channel_id if link else 0
LatestLink(u) ==
    LET mine == {i \in DOMAIN links : links[i].owner_id = u}
    IN  IF mine = {} THEN 0
        ELSE links[CHOOSE i \in mine : \A j \in mine : j <= i].channel_id

\* has_access(..., consume_one_time=False)
AccessGranted(row, t) == row.exists /\ (Active(row, t) \/ row.one_time_credits > 0)

\* delete(ChannelLink).where(owner_id == user, channel_id == chat_id); commit
unlink_channel_apply(u, ch) ==
    /\ links' = SelectSeq(links, LAMBDA l : ~(l.owner_id = u /\ l.channel_id = ch))
    /\ UNCHANGED <<created, posts, cpc, cloc, fa>>
    /\ CreateFrame

\* data = await state.get_data(); channel_id = int(data.get("channel_id") or 0)
\* if not channel_id: channel_id = the latest linked channel
ConfirmStart(c) ==
    /\ cpc[c] = "idle"
    /\ c > 1 => cpc[c - 1] # "idle"
    /\ \E ch \in {0} \cup Chats, g \in 0..MaxGates :
        cloc' = [cloc EXCEPT ![c] =
                    [ConfirmIdle EXCEPT !.channel_id = IF ch = 0 THEN LatestLink(Owner) ELSE ch,
                                        !.gates = g]]
    /\ cpc' = [cpc EXCEPT ![c] = "valid"]
    /\ UNCHANGED <<links, created, posts, fa>>
    /\ CreateFrame

\* valid = select(ChannelLink)...scalar_one_or_none()
\* if not valid or not channel_id: answer; return
ConfirmValidNoCheck(c) ==
    /\ cpc[c] = "valid"
    /\ cloc' = [cloc EXCEPT ![c].valid = HasLink(Owner, cloc[c].channel_id)]
    /\ cpc' = [cpc EXCEPT ![c] = IF cloc[c].gates > 0 THEN "access" ELSE "flush"]
    /\ UNCHANGED <<links, created, posts, fa>>
    /\ CreateFrame

ConfirmValid(c) ==
    /\ cpc[c] = "valid"
    /\ LET valid == HasLink(Owner, cloc[c].channel_id)
       IN  /\ cloc' = [cloc EXCEPT ![c].valid = valid]
           /\ cpc' = [cpc EXCEPT ![c] =
                        IF ~valid \/ cloc[c].channel_id = 0 THEN "rejected_link"
                        ELSE IF cloc[c].gates > 0 THEN "access" ELSE "flush"]
    /\ UNCHANGED <<links, created, posts, fa>>
    /\ CreateFrame

\* if gate_channels: allowed = await has_gate_access(user, consume_one_time=False)
\*     if not allowed: answer; return
ConfirmAccessNoCheck(c) ==
    /\ cpc[c] = "access"
    /\ cloc' = [cloc EXCEPT ![c].allowed = AccessGranted(fa, now)]
    /\ cpc' = [cpc EXCEPT ![c] = "flush"]
    /\ UNCHANGED <<links, created, posts, fa>>
    /\ CreateFrame

ConfirmAccess(c) ==
    /\ cpc[c] = "access"
    /\ LET allowed == AccessGranted(fa, now)
       IN  /\ cloc' = [cloc EXCEPT ![c].allowed = allowed]
           /\ cpc' = [cpc EXCEPT ![c] = IF allowed THEN "flush" ELSE "rejected_access"]
    /\ UNCHANGED <<links, created, posts, fa>>
    /\ CreateFrame

\* r = Roulette(..., is_open=True); session.add(r); flush; gates added; flush
ConfirmFlush(c) ==
    /\ cpc[c] = "flush"
    /\ cloc' = [cloc EXCEPT ![c].pending = TRUE]
    /\ cpc' = [cpc EXCEPT ![c] = "send"]
    /\ UNCHANGED <<links, created, posts, fa>>
    /\ CreateFrame

\* the contest row as confirm_create_cb commits it
NewContestRow(c) ==
    [owner_id |-> Owner, channel_id |-> cloc[c].channel_id, is_open |-> TRUE,
     gates |-> cloc[c].gates, channel_message_id |-> cloc[c].message_id]

\* post = await cb.bot.send_message(r.channel_id, ...): the post is sent, or
\* the call raises and the handler is left with its session uncommitted
ConfirmSendFailureCommits(c) ==
    /\ cpc[c] = "send"
    /\ \/ /\ posts' = Append(posts, [chat_id |-> cloc[c].channel_id])
          /\ cloc' = [cloc EXCEPT ![c].message_id = Len(posts) + 1]
          /\ cpc' = [cpc EXCEPT ![c] = "commit"]
          /\ UNCHANGED created
       \/ /\ cloc' = [cloc EXCEPT ![c].pending = FALSE]
          /\ created' = Append(created, NewContestRow(c))
          /\ cpc' = [cpc EXCEPT ![c] = "failed"]
          /\ UNCHANGED posts
    /\ UNCHANGED <<links, fa>>
    /\ CreateFrame

ConfirmSend(c) ==
    /\ cpc[c] = "send"
    /\ \/ /\ posts' = Append(posts, [chat_id |-> cloc[c].channel_id])
          /\ cloc' = [cloc EXCEPT ![c].message_id = Len(posts) + 1]
          /\ cpc' = [cpc EXCEPT ![c] = "commit"]
       \/ /\ cloc' = [cloc EXCEPT ![c].pending = FALSE]
          /\ cpc' = [cpc EXCEPT ![c] = "failed"]
          /\ UNCHANGED posts
    /\ UNCHANGED <<links, created, fa>>
    /\ CreateFrame

\* r.channel_message_id = post.message_id; await session.commit()
ConfirmCommit(c) ==
    /\ cpc[c] = "commit"
    /\ created' = Append(created, NewContestRow(c))
    /\ cloc' = [cloc EXCEPT ![c].pending = FALSE, ![c].r = Len(created) + 1]
    /\ cpc' = [cpc EXCEPT ![c] = IF cloc[c].gates > 0 THEN "consume" ELSE "done"]
    /\ UNCHANGED <<links, posts, fa>>
    /\ CreateFrame

\* if gate_channels: with suppress(Exception):
\*     await has_gate_access(user, consume_one_time=True)   -- the read
ConfirmConsume(c) ==
    /\ cpc[c] = "consume"
    /\ IF fa.exists /\ ~Active(fa, now) /\ fa.one_time_credits > 0
       THEN /\ cloc' = [cloc EXCEPT ![c].row = fa]
            /\ cpc' = [cpc EXCEPT ![c] = "consume_commit"]
       ELSE /\ cpc' = [cpc EXCEPT ![c] = "done"]
            /\ UNCHANGED cloc
    /\ UNCHANGED <<links, created, posts, fa>>
    /\ CreateFrame

\* fa.one_time_credits -= 1; await self.session.commit()
ConfirmConsumeCommit(c) ==
    /\ cpc[c] = "consume_commit"
    /\ fa' = Flush(fa, "one_time_credits", cloc[c].row.one_time_credits,
                   cloc[c].row.one_time_credits - 1)
    /\ cloc' = [cloc EXCEPT ![c].consumed = TRUE]
    /\ cpc' = [cpc EXCEPT ![c] = "done"]
    /\ UNCHANGED <<links, created, posts>>
    /\ CreateFrame

----------------------------------------------------------------------------
(* Specification of contest confirmation by one user *)

Link(u, ch) == [owner_id |-> u, channel_id |-> ch]

\* the user has linked no chat, chat 1, or both chats; another user linked chat 2
LinkRows == {<<Link(2, 2)>>, <<Link(1, 1), Link(2, 2)>>, <<Link(1, 2), Link(1, 1)>>}

\* no record, one credit, an active month, or both
LedgerRows ==
    {NoRow,
     [exists |-> TRUE, rows |-> 1, expires_at |-> None, one_time_credits |-> 1],
     [exists |-> TRUE, rows |-> 1, expires_at |-> MonthDays, one_time_credits |-> 0],
     [exists |-> TRUE, rows |-> 1, expires_at |-> MonthDays, one_time_credits |-> 1]}

InitCreate ==
    /\ contest = NewRoulette(1)
    /\ announcements = <<>>
    /\ clock = 0
    /\ NoRaffle
    /\ du = DuIdle
    /\ NoVoting
    /\ fa \in LedgerRows
    /\ now = 0
    /\ ticks = 0
    /\ epc = [e \in LedgerCalls |-> "idle"]
    /\ eloc = [e \in LedgerCalls |-> LedgerIdle]
    /\ ecalls = 0
    /\ NoGates
    /\ NoBoard
    /\ NoWizard
    /\ NoFlow
    /\ NoQuiz
    /\ links \in LinkRows
    /\ created = <<>>
    /\ posts = <<>>
    /\ cpc = [c \in Confirms |-> "idle"]
    /\ cloc = [c \in Confirms |-> ConfirmIdle]

NextCreate ==
    \/ Tick
    \/ \E u \in {1, 2}, ch \in Chats : unlink_channel_apply(u, ch)
    \/ \E c \in Confirms : ConfirmStart(c)
    \/ \E c \in Confirms : ConfirmValid(c)
    \/ \E c \in Confirms : ConfirmAccess(c)
    \/ \E c \in Confirms : ConfirmFlush(c)
    \/ \E c \in Confirms : ConfirmSend(c)
    \/ \E c \in Confirms : ConfirmCommit(c)
    \/ \E c \in Confirms : ConfirmConsume(c)
    \/ \E c \in Confirms : ConfirmConsumeCommit(c)

SpecCreate == InitCreate /\ [][NextCreate]_vars

----------------------------------------------------------------------------
(* Specifications of the raffle *)

JoinStep(Q) ==
    \/ \E q \in Q : JoinStart(q)
    \/ \E q \in Q : JoinMember(q)
    \/ \E q \in Q : JoinExisting(q)
    \/ \E q \in Q : JoinInsert(q)

DrawStep(T, P) ==
    \/ \E t \in T : DrawStart(t, P)
    \/ \E t \in T : DrawRead(t)
    \/ \E t \in T : DrawLock(t)
    \/ \E t \in T : DrawAuth(t)
    \/ \E t \in T : DrawRecheck(t)
    \/ \E t \in T : DrawRows(t)
    \/ \E t \in T : DrawCountdown(t)
    \/ \E t \in T : DrawAnnounce(t)
    \/ \E t \in T : DrawClose(t)
    \/ \E t \in T : DrawUnlock(t)

\* Life of one raffle from its publication: joins, pause/resume and draw
\* invocations, all interleaved at their awaits.
Next ==
    \/ JoinStep(JoinReqs)
    \/ \E u \in Users : pause(u)
    \/ \E u \in Users : resume(u)
    \/ DrawStep(1..NumLifecycleDraws, {1})

Spec == Init /\ [][Next]_vars

\* A raffle whose participation was stopped after the joins of users 2 and 3.
InitDraw ==
    /\ \E w \in 1..MaxWinners : contest = [NewRoulette(w) EXCEPT !.is_open = FALSE]
    /\ participants = <<2, 3>>
    /\ app_lock = FALSE
    /\ inproc_locks = [p \in Procs |-> FALSE]
    /\ dpc = [t \in Triggers |-> "idle"]
    /\ dloc = [t \in Triggers |-> DrawIdle]
    /\ jpc = [q \in JoinReqs |-> "idle"]
    /\ jloc = [q \in JoinReqs |-> JoinIdle]
    /\ announcements = <<>>
    /\ notified = <<>>
    /\ failures = 0
    /\ clock = 0
    /\ du = DuIdle
    /\ NoVoting
    /\ NoOther

\* Draw invocations arriving at any of the bot processes.
NextDraw ==
    \/ \E u \in Users : pause(u)
    \/ \E u \in Users : resume(u)
    \/ DrawStep(Triggers, Procs)

SpecDraw == InitDraw /\ [][NextDraw]_vars

\* Draw invocations arriving at a single bot process.
NextOneProc ==
    \/ \E u \in Users : pause(u)
    \/ \E u \in Users : resume(u)
    \/ DrawStep(Triggers, {1})

SpecOneProc == InitDraw /\ [][NextOneProc]_vars

----------------------------------------------------------------------------
(* services/subscription.py: is_member, check_gate; routers/roulette.py: join;
   routers/voting.py: handle_entry_view, handle_normal_vote *)

\* the user whose requests are followed, the gate channel, the entry a "vote"
\* gate names, and the entries of the contest the gates refer to
GateUser == 3
GateChat == 2
TargetCode == 1
RefEntries == {1, 2}

\* RouletteGate rows by gate_type; the gates of the creation wizard are
\* "channel" gates with a channel_id
ChannelGate == [gate_type |-> "channel", channel_id |-> GateChat, target_code |-> 0]
ContestGate == [gate_type |-> "contest", channel_id |-> 0, target_code |-> 0]
VoteGate == [gate_type |-> "vote", channel_id |-> 0, target_code |-> TargetCode]

\* get_chat_member answers with a status, or raises TelegramRetryAfter,
\* TelegramForbiddenError, TelegramBadRequest or another error
Lookups == {"ok", "retry_after", "forbidden", "bad_request", "error"}

\* join: status not in {member, creator, administrator} raises Forbidden;
\* RetryAfter, Forbidden and BadRequest are answered with a refusal; any other
\* exception leaves the handler
JoinLookupLenient(res, member) ==
    IF res = "ok" /\ member THEN "pass"
    ELSE IF res = "retry_after" THEN "pass"
    ELSE IF res \in {"ok", "forbidden", "bad_request"} THEN "rejected"
    ELSE "error"

JoinLookup(res, member) ==
    IF res = "ok" /\ member THEN "pass"
    ELSE IF res \in {"ok", "retry_after", "forbidden", "bad_request"} THEN "rejected"
    ELSE "error"

\* SubscriptionService.is_member: except Exception: return False
is_member(res, member) == res = "ok" /\ member

\* what a gate requires of the user
GateHolds(g) ==
    IF g.gate_type = "channel" THEN in_gate
    ELSE IF g.gate_type = "contest" THEN ref_entry
    ELSE g.target_code \in ref_votes

\* check_gate for "vote" and "contest": select(...).scalar_one_or_none() is not None
\* over the user's Vote rows (any entry) or Entry row in gate.target_id
check_gate_rows(g) ==
    IF g.gate_type = "vote"
    THEN IF Cardinality(ref_votes) > 1 THEN "error"
         ELSE IF ref_votes # {} THEN "pass" ELSE "rejected"
    ELSE IF g.gate_type = "contest"
    THEN IF ref_entry THEN "pass" ELSE "rejected"
    ELSE "pass"

GateStatic == UNCHANGED <<contest, announcements, clock, ledgerVars, createVars, boardVars,
                          wizardVars, quizVars,
                          gates, in_main, in_gate, ref_entry, ref_votes>>

GateFrame == GateStatic /\ UNCHANGED vfsm

\* the request is answered (or the handler left by an exception)
GateReturn(res, outcome) ==
    /\ gloc' = [gloc EXCEPT !.lookup = res, !.out = outcome]
    /\ gpc' = "idle"

\* between requests the user joins or leaves a channel
Membership ==
    /\ gpc = "idle"
    /\ \/ in_main' = ~in_main /\ UNCHANGED in_gate
       \/ in_gate' = ~in_gate /\ UNCHANGED in_main
    /\ UNCHANGED <<contest, announcements, clock, raffleVars, voteVars, ledgerVars,
                   createVars, boardVars, wizardVars, flowVars, quizVars,
                   gates, ref_entry, ref_votes, offered, gpc, gloc>>

\* between requests the user registers in the contest the gates refer to
RefRegister ==
    /\ gpc = "idle"
    /\ ~ref_entry
    /\ ref_entry' = TRUE
    /\ UNCHANGED <<contest, announcements, clock, raffleVars, voteVars, ledgerVars,
                   createVars, boardVars, wizardVars, flowVars, quizVars,
                   gates, in_main, in_gate, ref_votes, offered, gpc, gloc>>

\* between requests the user votes for an entry of that contest
RefVote(e) ==
    /\ gpc = "idle"
    /\ e \notin ref_votes
    /\ ref_votes' = ref_votes \cup {e}
    /\ UNCHANGED <<contest, announcements, clock, raffleVars, voteVars, ledgerVars,
                   createVars, boardVars, wizardVars, flowVars, quizVars,
                   gates, in_main, in_gate, ref_entry, offered, gpc, gloc>>

\* join: if not r or not r.is_open: answer "closed"; return
GateJoinStart ==
    /\ contest.type = "roulette"
    /\ gpc = "idle"
    /\ IF ~contest.is_open
       THEN GateReturn("none", "closed")
       ELSE /\ gloc' = GateIdle
            /\ gpc' = "main"
    /\ UNCHANGED <<raffleVars, voteVars, offered>>
    /\ GateFrame

\* join: member = await get_chat_member(r.channel_id, user)
GateJoinMain ==
    /\ contest.type = "roulette"
    /\ gpc = "main"
    /\ \E res \in Lookups :
        IF JoinLookup(res, in_main) = "pass"
        THEN /\ gloc' = [gloc EXCEPT !.lookup = res, !.i = 1]
             /\ gpc' = "gates"
        ELSE GateReturn(res, JoinLookup(res, in_main))
    /\ UNCHANGED <<raffleVars, voteVars, offered>>
    /\ GateFrame

\* join: for gate in gate_rows: a gate with a channel_id (or a public invite
\* link) is looked up, a gate with neither is passed over
GateJoinGate ==
    /\ contest.type = "roulette"
    /\ gpc = "gates"
    /\ gloc.i <= Len(gates)
    /\ IF gates[gloc.i].channel_id = 0
       THEN /\ gloc' = [gloc EXCEPT !.i = @ + 1]
            /\ gpc' = gpc
       ELSE \E res \in Lookups :
              IF JoinLookup(res, in_gate) = "pass"
              THEN /\ gloc' = [gloc EXCEPT !.lookup = res, !.i = @ + 1]
                   /\ gpc' = gpc
              ELSE GateReturn(res, JoinLookup(res, in_gate))
    /\ UNCHANGED <<raffleVars, voteVars, offered>>
    /\ GateFrame

\* join: existing = select(Participant)...; if existing is None: add; commit
GateJoinInsert ==
    /\ contest.type = "roulette"
    /\ gpc = "gates"
    /\ gloc.i > Len(gates)
    /\ participants' = InsertParticipant(participants, GateUser)
    /\ gloc' = [gloc EXCEPT !.out = "joined"]
    /\ gpc' = "idle"
    /\ UNCHANGED <<app_lock, inproc_locks, dpc, dloc, jpc, jloc, notified, failures, du,
                   voteVars, offered>>
    /\ GateFrame

\* handle_entry_view: if not c or not c.is_open: answer; return
GateViewStart ==
    /\ contest.type = "vote"
    /\ gpc = "idle"
    /\ IF ~contest.is_open
       THEN GateReturn("none", "closed")
       ELSE /\ gloc' = GateIdle
            /\ gpc' = "main"
    /\ UNCHANGED <<raffleVars, voteVars, offered>>
    /\ GateFrame

\* handle_entry_view: if not await sub_service.is_member(c.channel_id, user): return
GateViewMain ==
    /\ contest.type = "vote"
    /\ gpc = "main"
    /\ \E res \in Lookups :
        IF is_member(res, in_main)
        THEN /\ gloc' = [gloc EXCEPT !.lookup = res, !.i = 1]
             /\ gpc' = "gates"
        ELSE GateReturn(res, "rejected")
    /\ UNCHANGED <<raffleVars, voteVars, offered>>
    /\ GateFrame

\* handle_entry_view: for gate in gates:
\*     if not await sub_service.check_gate(user, gate, session): answer; return
GateViewGate ==
    /\ contest.type = "vote"
    /\ gpc = "gates"
    /\ gloc.i <= Len(gates)
    /\ IF gates[gloc.i].gate_type = "channel"
       THEN \E res \in Lookups :
              IF is_member(res, in_gate)
              THEN /\ gloc' = [gloc EXCEPT !.lookup = res, !.i = @ + 1]
                   /\ gpc' = gpc
              ELSE GateReturn(res, "rejected")
       ELSE IF check_gate_rows(gates[gloc.i]) = "pass"
            THEN /\ gloc' = [gloc EXCEPT !.i = @ + 1]
                 /\ gpc' = gpc
            ELSE GateReturn(gloc.lookup, check_gate_rows(gates[gloc.i]))
    /\ UNCHANGED <<raffleVars, voteVars, offered>>
    /\ GateFrame

\* generate_math_challenge: a + b for random a, b
Answers == {2, 3}

\* handle_entry_view: if c.anti_bot_enabled: set_state(await_voter_antibot);
\* update_data(cid, eid, ans); show the challenge; return
\* else: await show_voting_options(cb, c, entry)
GateViewOffer ==
    /\ contest.type = "vote"
    /\ gpc = "gates"
    /\ gloc.i > Len(gates)
    /\ IF contest.anti_bot_enabled
       THEN /\ \E a \in Answers : vfsm' = [vfsm EXCEPT !.state = "await_voter_antibot", !.ans = a]
            /\ gloc' = [gloc EXCEPT !.out = "challenged"]
            /\ UNCHANGED offered
       ELSE /\ offered' = TRUE
            /\ gloc' = [gloc EXCEPT !.out = "offered"]
            /\ UNCHANGED vfsm
    /\ gpc' = "idle"
    /\ UNCHANGED <<raffleVars, voteVars>>
    /\ GateStatic

\* handle_voter_antibot_ans (filter: state await_voter_antibot):
\* if user_ans != correct: answer "wrong"; return
\* if c and e: await state.clear(); await show_voting_options(cb, c, e)
handle_voter_antibot_ans ==
    /\ contest.type = "vote"
    /\ gpc = "idle"
    /\ vfsm.state = "await_voter_antibot"
    /\ \E user_ans \in Answers :
        IF user_ans # vfsm.ans
        THEN /\ gloc' = [GateIdle EXCEPT !.out = "wrong_answer"]
             /\ UNCHANGED <<vfsm, offered>>
        ELSE /\ vfsm' = [state |-> "none", ans |-> 0, passed |-> TRUE]
             /\ offered' = TRUE
             /\ gloc' = [GateIdle EXCEPT !.out = "offered"]
    /\ UNCHANGED <<raffleVars, voteVars, gpc>>
    /\ GateStatic

\* handle_normal_vote: success = await service.add_vote(contest_id, entry_id, user)
handle_normal_vote ==
    /\ contest.type = "vote"
    /\ gpc = "idle"
    /\ offered
    /\ contest.is_open
    /\ has_voted(GateUser) = "false"
    /\ votes' = Append(votes, [entry_id |-> 1, voter_id |-> GateUser,
                               is_stars |-> FALSE, stars_amount |-> 0])
    /\ entries' = [entries EXCEPT ![1].votes_count = @ + 1]
    /\ gloc' = [GateIdle EXCEPT !.out = "voted"]
    /\ UNCHANGED <<raffleVars, reg_offered, reg_out, vpc, vloc, vcalls, fpc, floc, vd_out,
                   offered, gpc>>
    /\ GateFrame

----------------------------------------------------------------------------
(* Specification of gated joins and votes of one user *)

\* the gate lists: the wizard's channel gates on a raffle, gates of every
\* type on a VOTE contest
RECURSIVE GateLists(_, _)
GateLists(rows, n) ==
    IF n = 0 THEN {<<>>}
    ELSE LET shorter == GateLists(rows, n - 1)
         IN  shorter \cup {Append(l, g) : l \in shorter, g \in rows}

InitGate ==
    /\ \/ /\ contest = NewRoulette(1)
          /\ entries = <<>>
          /\ gates \in GateLists({ChannelGate}, MaxGateRows)
       \/ /\ \E b \in BOOLEAN :
                contest = [NewContest("vote", 1, TRUE, 2) EXCEPT !.anti_bot_enabled = b]
          /\ entries = <<[user_id |-> 2, votes_count |-> 0, stars_received |-> 0]>>
          /\ gates \in GateLists({ChannelGate, ContestGate, VoteGate}, MaxGateRows)
    /\ announcements = <<>>
    /\ clock = 0
    /\ NoRaffle
    /\ du = DuIdle
    /\ NoRequests
    /\ NoLedger
    /\ NoCreate
    /\ NoBoard
    /\ NoWizard
    /\ NoFlow
    /\ NoQuiz
    /\ in_main = FALSE
    /\ in_gate = FALSE
    /\ ref_entry = FALSE
    /\ ref_votes = {}
    /\ offered = FALSE
    /\ gpc = "idle"
    /\ gloc = GateIdle

NextGate ==
    \/ Membership
    \/ RefRegister
    \/ \E e \in RefEntries : RefVote(e)
    \/ GateJoinStart
    \/ GateJoinMain
    \/ GateJoinGate
    \/ GateJoinInsert
    \/ GateViewStart
    \/ GateViewMain
    \/ GateViewGate
    \/ GateViewOffer
    \/ handle_voter_antibot_ans
    \/ handle_normal_vote

SpecGate == InitGate /\ [][NextGate]_vars

----------------------------------------------------------------------------
(* Specification of draws on a contest without entries *)

\* A raffle or a VOTE contest as published, without entries.
InitEmpty ==
    /\ \/ contest = NewRoulette(1)
       \/ contest = NewContest("vote", 1, TRUE, 2)
    /\ announcements = <<>>
    /\ clock = 0
    /\ NoRaffle
    /\ du = DuIdle
    /\ NoVoting
    /\ NoOther

\* Joins, pause/resume and repeated draw requests on the raffle; registration
\* and draw requests on the VOTE contest.
NextEmpty ==
    \/ contest.type = "roulette" /\ JoinStep({1})
    \/ contest.type = "roulette" /\ DrawStep(1..NumRetryDraws, {1})
    \/ \E u \in Users : pause(u)
    \/ \E u \in Users : resume(u)
    \/ \E u \in Registrants : start_registration(u)
    \/ \E u \in Registrants : reg_use_name_callback(u)
    \/ \E u \in Users : handle_vote_draw(u)

SpecEmpty == InitEmpty /\ [][NextEmpty]_vars

----------------------------------------------------------------------------
(* Specification of draw_unique as a function of its arguments *)

\* the pools of at most MaxSample user ids, repeated ids included
Samples == UNION {[1..n -> Users] : n \in 0..MaxSample}

InitDrawUnique ==
    /\ contest = NewRoulette(1)
    /\ announcements = <<>>
    /\ clock = 0
    /\ NoRaffle
    /\ NoVoting
    /\ NoOther
    /\ \E sample \in Samples, k \in -1..(MaxSample + 1) :
           du = [DuIdle EXCEPT !.given = sample, !.sample = sample, !.k = k]

\* winners_ids = draw_unique(rows, k): sample is only read
CallDrawUnique ==
    /\ ~du.called
    /\ \E pos \in DrawIndices(Len(du.sample), du.k) :
           du' = [du EXCEPT !.pos = pos, !.result = Pick(du.sample, pos), !.called = TRUE]
    /\ UNCHANGED <<contest, announcements, clock, participants, app_lock, inproc_locks,
                   dpc, dloc, jpc, jloc, notified, failures, voteVars, otherVars>>

NextDrawUnique == CallDrawUnique

SpecDrawUnique == InitDrawUnique /\ [][NextDrawUnique]_vars

\* C8: draw_unique(pool, k) returns min(max(k, 0), len(pool)) elements, each
\* taken from a distinct position of the pool: nothing for k <= 0, the whole
\* pool in some order for k >= len(pool); the pool itself is left as given.
C8_DrawUniqueDistinctPositions ==
    du.called =>
        /\ du.sample = du.given
        /\ Len(du.result) = Min(Max(du.k, 0), Len(du.sample))
        /\ Len(du.pos) = Len(du.result)
        /\ Distinct(du.pos)
        /\ \A p \in 1..Len(du.pos) :
               du.pos[p] \in 1..Len(du.sample) /\ du.result[p] = du.sample[du.pos[p]]
        /\ du.k <= 0 => du.result = <<>>
        /\ du.k >= Len(du.sample) => SeqToSet(du.pos) = 1..Len(du.sample)

\* a call that selected two of three pool members
C8_Witness == du.called /\ Len(du.sample) = 3 /\ du.k = 2 /\ Len(du.result) = 2

----------------------------------------------------------------------------
(* routers/roulette.py: the creation wizard of one user -- collect_text, the
   gate feature and the gate list, collect_winners; services/formatting.py:
   parse_style_from_text *)

WizardFrame == UNCHANGED <<contestVars, createVars, gateVars, boardVars, flowVars, quizVars, now, ticks,
                          epc, eloc, ecalls>>

WizardReturn(op, outcome) == wloc' = [op |-> op, out |-> outcome]

\* a text is a sequence of characters: a blank, a letter, and "#" for one
\* style tag (a tag word of STYLE_TAGS_MAP with its "#")
TextChars == {" ", "a", "#"}
Texts == UNION {[1..n -> TextChars] : n \in 0..MaxText}

RECURSIVE LStrip(_)
LStrip(s) == IF s # <<>> /\ Head(s) = " " THEN LStrip(Tail(s)) ELSE s

RECURSIVE RStrip(_)
RStrip(s) == IF s # <<>> /\ s[Len(s)] = " " THEN RStrip(SubSeq(s, 1, Len(s) - 1)) ELSE s

\* str.strip()
Strip(s) == RStrip(LStrip(s))

\* clean = text.strip()
\* if clean.startswith(tag) and clean.endswith(tag):
\*     return clean[len(tag):-len(tag)].strip(), sty
\* return clean, "plain"
parse_style_from_text(text) ==
    LET clean == Strip(text) IN
    IF clean # <<>> /\ Head(clean) = "#" /\ clean[Len(clean)] = "#"
    THEN [text |-> Strip(SubSeq(clean, 2, Len(clean) - 1)), style |-> "styled"]
    ELSE [text |-> clean, style |-> "plain"]

\* text, style = parse_style_from_text(message.text or "")
\* await state.update_data(text_raw=text, style=style)
\* await state.set_state(CreateRoulette.await_gate_choice)
collect_text(text) ==
    /\ wstate = "await_text"
    /\ LET parsed == parse_style_from_text(text) IN
        wdata' = [wdata EXCEPT !.text_raw = parsed.text, !.style = parsed.style]
    /\ wstate' = "await_gate_choice"
    /\ WizardReturn("collect_text", "gate_choice")
    /\ UNCHANGED <<prices, invoices, user_admin, bot_admin, fa>>
    /\ WizardFrame

\* a winner count is typed with blanks, digits and other characters
WinnerChars == {" ", "x", "0", "1"}
WinnerTexts == UNION {[1..n -> WinnerChars] : n \in 0..MaxText}
IsDigit(ch) == ch \in {"0", "1"}
DigitOf(ch) == IF ch = "1" THEN 1 ELSE 0

\* int("".join(digits))
RECURSIVE IntOf(_)
IntOf(ds) == IF ds = <<>> THEN 0 ELSE 10 * IntOf(SubSeq(ds, 1, Len(ds) - 1)) + DigitOf(ds[Len(ds)])

\* s = (text or "").strip(); if not s: return None
\* blanks are skipped, a character that is no digit returns None
\* return int("".join(digits)) if digits else None
_parse_int_strict(text) ==
    LET s == Strip(text) IN
    IF s = <<>> THEN None
    ELSE IF \E i \in 1..Len(s) : s[i] # " " /\ ~IsDigit(s[i]) THEN None
    ELSE LET digits == SelectSeq(s, IsDigit) IN
         IF digits = <<>> THEN None ELSE IntOf(digits)

\* the largest number of winners collect_winners stores
WinnersCap == 100

\* max(1, min(100, val))
ClampWinners(val) == Max(1, Min(WinnersCap, val))

\* val = _parse_int_strict(message.text or "")
\* if not val: answer "send a number"; return
\* await state.update_data(winners=count); set_state(await_confirm)
collect_winners(text) ==
    /\ wstate = "await_winners"
    /\ LET val == _parse_int_strict(text) IN
        IF val = None \/ val = 0
        THEN /\ WizardReturn("collect_winners", "rejected")
             /\ UNCHANGED <<wstate, wdata>>
        ELSE /\ wdata' = [wdata EXCEPT !.winners = ClampWinners(val)]
             /\ wstate' = "await_confirm"
             /\ WizardReturn("collect_winners", "confirm")
    /\ UNCHANGED <<prices, invoices, user_admin, bot_admin, fa>>
    /\ WizardFrame

\* the creator's own test of access: has_gate_access(user) without consuming
HasGateAccess(row, t) == row.exists /\ (Active(row, t) \/ row.one_time_credits > 0)

\* grant_monthly(user): a new row, or the stored expiry extended
GrantedMonthly(row, t) ==
    IF ~row.exists THEN InsertRow([NoRow EXCEPT !.expires_at = t + MonthDays])
    ELSE Flush(row, "expires_at", row.expires_at, MonthlyBase(row, t) + MonthDays)

\* grant_one_time(user, credits=1): a new row, or the stored credits raised
GrantedOneTime(row) ==
    IF ~row.exists THEN InsertRow([NoRow EXCEPT !.one_time_credits = 1])
    ELSE Flush(row, "one_time_credits", row.one_time_credits, row.one_time_credits + 1)

\* a gate feature that is never free: the offer is shown whatever the prices
FreeTierNever(m_price, o_price) == "none"

\* if m_price == 0 or o_price == 0:
\*     if m_price == 0: grant_monthly   elif o_price == 0: grant_one_time
FreeTier(m_price, o_price) ==
    IF m_price = 0 THEN "monthly" ELSE IF o_price = 0 THEN "one_time" ELSE "none"

\* if not await has_gate_access(user):
\*     free tier: grant, update_data(sub_view="gate_add_menu"), menu, return
\*     otherwise: the offer with the pay_monthly and pay_onetime buttons, return
\* update_data(sub_view="gate_add_menu"), menu
gate_add ==
    /\ wstate = "await_gate_choice"
    /\ IF HasGateAccess(fa, now)
       THEN /\ wdata' = [wdata EXCEPT !.sub_view = "gate_add_menu"]
            /\ WizardReturn("gate_add", "menu")
            /\ UNCHANGED fa
       ELSE LET tier == FreeTier(prices.month, prices.once) IN
            IF tier = "monthly"
            THEN /\ fa' = GrantedMonthly(fa, now)
                 /\ wdata' = [wdata EXCEPT !.sub_view = "gate_add_menu"]
                 /\ WizardReturn("gate_add", "granted_monthly")
            ELSE IF tier = "one_time"
            THEN /\ fa' = GrantedOneTime(fa)
                 /\ wdata' = [wdata EXCEPT !.sub_view = "gate_add_menu"]
                 /\ WizardReturn("gate_add", "granted_one_time")
            ELSE /\ WizardReturn("gate_add", "offer")
                 /\ UNCHANGED <<fa, wdata>>
    /\ UNCHANGED <<prices, invoices, wstate, user_admin, bot_admin>>
    /\ WizardFrame

\* pay_monthly, pay_onetime: send_invoice(payload, currency="XTR", prices)
pay_invoice ==
    /\ invoices < MaxInvoices
    /\ invoices' = invoices + 1
    /\ \E op \in {"pay_monthly", "pay_onetime"} : WizardReturn(op, "invoice")
    /\ UNCHANGED <<prices, wstate, wdata, user_admin, bot_admin, fa>>
    /\ WizardFrame

\* gate_add_channel, gate_add_group: update_data(sub_view=...)
gate_add_kind ==
    /\ \E view \in {"gate_add_channel", "gate_add_group"} :
        /\ wdata' = [wdata EXCEPT !.sub_view = view]
        /\ WizardReturn(view, "prompt")
    /\ UNCHANGED <<prices, invoices, wstate, user_admin, bot_admin, fa>>
    /\ WizardFrame

\* the chat a gate request names: its type as Telegram reports it
ChatTypes == {"channel", "group", "private"}

\* get_chat and get_chat_member answer or raise
MemberLookups == {"ok", "retry_after", "forbidden", "bad_request", "error"}

\* runtime.bot_id is set from get_me() before polling starts
BotIdKnown == TRUE

\* a check that asks for the user's rights only
AdminCheckUserOnly(res_user, res_bot) ==
    IF res_user # "ok" THEN res_user
    ELSE IF ~user_admin THEN "user_not_admin"
    ELSE "pass"

\* member = await bot.get_chat_member(chat, user)
\* if member.status not in {"creator", "administrator"}: refuse
\* if runtime.bot_id is not None:
\*     bot_member = await bot.get_chat_member(chat, runtime.bot_id)
\*     if bot_member.status not in {"creator", "administrator"}: refuse
\* RetryAfter, Forbidden, BadRequest: a message, return; others propagate
AdminCheck(res_user, res_bot) ==
    IF res_user # "ok" THEN res_user
    ELSE IF ~user_admin THEN "user_not_admin"
    ELSE IF ~BotIdKnown THEN "pass"
    ELSE IF res_bot # "ok" THEN res_bot
    ELSE IF ~bot_admin THEN "bot_not_admin"
    ELSE "pass"

\* what the admin checks of a request can answer, over every outcome of the
\* two get_chat_member calls
AdminOutcomes == {AdminCheck(res_user, res_bot) : res_user \in MemberLookups,
                                                   res_bot \in MemberLookups}

\* gates = list(data.get("gate_channels", [])); gates.append({...})
\* await state.update_data(gate_channels=gates)
AppendGate == wdata' = [wdata EXCEPT !.gate_channels = Append(@, GateChat)]

\* the admin checks, then the append
CheckedAppend(op) ==
    \E check \in AdminOutcomes :
        IF check = "pass"
        THEN AppendGate /\ WizardReturn(op, "added")
        ELSE WizardReturn(op, check) /\ UNCHANGED wdata

\* add_gate_forwarded: the forwarded chat must be a channel or group of the
\* kind chosen in sub_view, then the admin checks, then the append
add_gate_forwarded ==
    /\ wstate = "await_gate_choice"
    /\ Len(wdata.gate_channels) < MaxDraftGates
    /\ \E ctype \in ChatTypes :
        IF ctype \notin {"channel", "group"}
           \/ (wdata.sub_view = "gate_add_channel" /\ ctype # "channel")
           \/ (wdata.sub_view = "gate_add_group" /\ ctype # "group")
        THEN /\ WizardReturn("add_gate_forwarded", "ignored")
             /\ UNCHANGED wdata
        ELSE CheckedAppend("add_gate_forwarded")
    /\ UNCHANGED <<prices, invoices, wstate, user_admin, bot_admin, fa>>
    /\ WizardFrame

\* what add_gate_link makes of the text: no link at all, a link of another
\* site, a link without an identifier, or a Telegram link or @username
LinkKinds == {"unrelated", "foreign", "no_identifier", "telegram"}

\* add_gate_link: sub_view must ask for a link, the text must be a Telegram
\* link or @username, get_chat must resolve it to a chat of the chosen kind,
\* then the admin checks, then the append
add_gate_link ==
    /\ wstate = "await_gate_choice"
    /\ Len(wdata.gate_channels) < MaxDraftGates
    /\ \E link \in LinkKinds :
        IF wdata.sub_view \notin {"gate_add_public", "gate_add_channel", "gate_add_group"}
           \/ link = "unrelated"
        THEN /\ WizardReturn("add_gate_link", "ignored")
             /\ UNCHANGED wdata
        ELSE IF link # "telegram"
        THEN /\ WizardReturn("add_gate_link", "bad_link")
             /\ UNCHANGED wdata
        ELSE \E res_chat \in MemberLookups :
            IF res_chat # "ok"
            THEN /\ WizardReturn("add_gate_link", res_chat)
                 /\ UNCHANGED wdata
            ELSE \E ctype \in ChatTypes :
                IF (wdata.sub_view = "gate_add_channel" /\ ctype # "channel")
                   \/ (wdata.sub_view = "gate_add_group" /\ ctype # "group")
                THEN /\ WizardReturn("add_gate_link", "wrong_kind")
                     /\ UNCHANGED wdata
                ELSE CheckedAppend("add_gate_link")
    /\ UNCHANGED <<prices, invoices, wstate, user_admin, bot_admin, fa>>
    /\ WizardFrame

\* gate_pick_apply: the chat id of the button, the admin checks, the append;
\* the handler has no state filter
gate_pick_apply ==
    /\ Len(wdata.gate_channels) < MaxDraftGates
    /\ \E valid_id \in BOOLEAN :
        IF ~valid_id
        THEN /\ WizardReturn("gate_pick_apply", "ignored")
             /\ UNCHANGED wdata
        ELSE CheckedAppend("gate_pick_apply")
    /\ UNCHANGED <<prices, invoices, wstate, user_admin, bot_admin, fa>>
    /\ WizardFrame

\* gate_remove: if 0 <= idx < len(gates): gates.pop(idx)
gate_remove(idx) ==
    /\ IF idx \in 1..Len(wdata.gate_channels)
       THEN /\ wdata' = [wdata EXCEPT !.gate_channels =
                            SubSeq(@, 1, idx - 1) \o SubSeq(@, idx + 1, Len(@))]
            /\ WizardReturn("gate_remove", "removed")
       ELSE /\ WizardReturn("gate_remove", "bad_index")
            /\ UNCHANGED wdata
    /\ UNCHANGED <<prices, invoices, wstate, user_admin, bot_admin, fa>>
    /\ WizardFrame

\* gate_skip, gate_done: set_state(CreateRoulette.await_winners)
gate_done ==
    /\ wstate' = "await_winners"
    /\ WizardReturn("gate_done", "winners")
    /\ UNCHANGED <<prices, invoices, wdata, user_admin, bot_admin, fa>>
    /\ WizardFrame

\* go_back: out of a gate sub-view, or one step back, or out of the wizard
go_back ==
    /\ IF wdata.sub_view \in {"gate_add", "gate_add_public", "gate_add_menu", "gate_pick"}
       THEN /\ wdata' = [wdata EXCEPT !.sub_view = "none"]
            /\ wstate' = "await_gate_choice"
       ELSE IF wstate = "await_confirm"
       THEN wstate' = "await_winners" /\ UNCHANGED wdata
       ELSE IF wstate = "await_winners"
       THEN wstate' = "await_gate_choice" /\ UNCHANGED wdata
       ELSE IF wstate = "await_gate_choice"
       THEN wstate' = "await_text" /\ UNCHANGED wdata
       ELSE IF wstate = "await_text"
       THEN wstate' = "none" /\ wdata' = NoDraft
       ELSE UNCHANGED <<wstate, wdata>>
    /\ WizardReturn("go_back", "back")
    /\ UNCHANGED <<prices, invoices, user_admin, bot_admin, fa>>
    /\ WizardFrame

\* Telegram: the rights of the user and of the bot in the chat change
SetAdmins ==
    /\ \E u \in BOOLEAN, b \in BOOLEAN :
        /\ <<u, b>> # <<user_admin, bot_admin>>
        /\ user_admin' = u
        /\ bot_admin' = b
    /\ UNCHANGED <<prices, invoices, wstate, wdata, wloc, fa>>
    /\ WizardFrame

----------------------------------------------------------------------------
(* Specifications of the creation wizard of one user: the text and winner
   steps (SpecWizard), the gate list (SpecGateList); the gate feature
   request and its invoices are in SpecFeature *)

WizardStart ==
    /\ contest = NewRoulette(1)
    /\ announcements = <<>>
    /\ clock = 0
    /\ NoRaffle
    /\ du = DuIdle
    /\ NoVoting
    /\ NoLedger
    /\ NoCreate
    /\ NoGates
    /\ NoBoard
    /\ NoFlow
    /\ NoQuiz
    /\ prices = DefaultPrices
    /\ invoices = 0
    /\ wloc = WizardIdle

\* the channel is chosen and the wizard asks for the text
InitWizard ==
    /\ WizardStart
    /\ wstate = "await_text"
    /\ wdata = [NoDraft EXCEPT !.channel_id = 1]
    /\ user_admin = FALSE
    /\ bot_admin = FALSE

NextWizard ==
    \/ \E text \in Texts : collect_text(text)
    \/ gate_done
    \/ \E text \in WinnerTexts : collect_winners(text)
    \/ go_back

SpecWizard == InitWizard /\ [][NextWizard]_vars

\* the text is stored and the wizard asks for gates
InitGateList ==
    /\ WizardStart
    /\ wstate = "await_gate_choice"
    /\ wdata = [NoDraft EXCEPT !.channel_id = 1, !.text_raw = <<"a">>, !.style = "plain"]
    /\ user_admin \in BOOLEAN
    /\ bot_admin \in BOOLEAN

NextGateList ==
    \/ gate_add_kind
    \/ add_gate_forwarded
    \/ add_gate_link
    \/ gate_pick_apply
    \/ \E idx \in 0..MaxDraftGates : gate_remove(idx)
    \/ gate_done
    \/ go_back
    \/ SetAdmins

SpecGateList == InitGateList /\ [][NextGateList]_vars

----------------------------------------------------------------------------
(* Specification of the gate feature request of one user *)

\* the wizard is at the gate step; the prices are what the settings hold and
\* the user's ledger row is any row
InitFeature ==
    /\ contest = NewRoulette(1)
    /\ announcements = <<>>
    /\ clock = 0
    /\ NoRaffle
    /\ du = DuIdle
    /\ NoVoting
    /\ fa \in LedgerRows
    /\ now = 0
    /\ ticks = 0
    /\ epc = [e \in LedgerCalls |-> "idle"]
    /\ eloc = [e \in LedgerCalls |-> LedgerIdle]
    /\ ecalls = 0
    /\ NoCreate
    /\ NoGates
    /\ NoBoard
    /\ NoFlow
    /\ NoQuiz
    /\ prices \in [month : PriceLevels, once : PriceLevels]
    /\ invoices = 0
    /\ wstate = "await_gate_choice"
    /\ wdata = [NoDraft EXCEPT !.channel_id = 1, !.text_raw = <<"a">>, !.style = "plain"]
    /\ wloc = WizardIdle
    /\ user_admin = FALSE
    /\ bot_admin = FALSE

NextFeature ==
    \/ gate_add
    \/ pay_invoice
    \/ gate_add_kind
    \/ go_back
    \/ Tick

SpecFeature == InitFeature /\ [][NextFeature]_vars

----------------------------------------------------------------------------
(* Properties of the draw guard *)

\* C1: in a single bot process, whatever the interleaving of the draw triggers,
\* winners are selected and notified by one trigger only, one announcement is
\* posted and closed_at is stamped once; every other trigger leaves without
\* selecting, notifying or changing the contest.
C1_OneProcessOneFinalization ==
    /\ Len(notified) <= 1
    /\ Len(announcements) <= 1
    /\ clock <= 1

\* C2: with draw triggers spread over bot processes that share the database,
\* at most one finalization of the raffle ever completes.
C2_AtMostOneFinalization == clock <= 1

----------------------------------------------------------------------------
(* Properties of the raffle lifecycle *)

\* C4: once closed_at is set no participant row is created any more, whatever
\* join or resume request comes later or was already under way.
C4_NoEntryAfterClose ==
    [][contest.closed_at # None => participants' = participants]_vars

\* C5: a closed raffle is terminal: no later pause, resume, draw or join changes
\* is_open or closed_at, and no draw announces or notifies winners again.
C5_ClosedIsTerminal ==
    [][contest.closed_at # None =>
          /\ contest'.is_open = contest.is_open
          /\ contest'.closed_at = contest.closed_at
          /\ announcements' = announcements
          /\ notified' = notified]_vars

\* C7: when a draw completes, the raffle is closed (closed_at set, is_open
\* false) and the winners it selected are min(winners_count, N) distinct users
\* of the N participants it read.
C7_DrawClosesWithWinners ==
    [][\A t \in Triggers :
          dpc[t] = "close" /\ dpc'[t] = "unlock" =>
              /\ contest'.closed_at # None
              /\ ~contest'.is_open
              /\ Len(dloc[t].winners) = Min(contest.winners_count, Len(dloc[t].rows))
              /\ Distinct(dloc[t].winners)
              /\ SeqToSet(dloc[t].winners) \subseteq SeqToSet(dloc[t].rows)]_vars

----------------------------------------------------------------------------
(* Properties of VOTE and QUIZ contests *)

\* C3: whatever the sequence of draw_vote and quiz_finish requests on a
\* contest, its results are announced at most once and closed_at is stamped at
\* most once.
C3_ResultsAnnouncedOnce == Len(announcements) <= 1 /\ clock <= 1

EntriesOf(u) == {e \in 1..Len(entries) : entries[e].user_id = u}

\* C6: whatever the number of registration requests of a user, the user has at
\* most one entry and no request ends in an error.
C6_RepeatedRegistrationIsNoOp ==
    \A u \in Registrants : Cardinality(EntriesOf(u)) <= 1 /\ reg_out[u] # "error"

\* C9: with prevent_multiple_votes, a normal vote of a voter who has a vote in
\* the contest returns False and changes no row; without it, a normal vote
\* that is committed raises the entry's votes_count by exactly 1.
C9_NormalVoteRule ==
    [][\A v \in VoteReqs :
          /\ (/\ vpc[v] = "has_voted"
              /\ vpc'[v] # "has_voted"
              /\ ~vloc[v].is_stars
              /\ vloc[v].prevent
              /\ VotesOf(vloc[v].voter) # {})
             => /\ vpc'[v] = "idle"
                /\ vloc'[v].out = "false"
                /\ votes' = votes
                /\ entries' = entries
          /\ (/\ vpc[v] = "commit"
              /\ vpc'[v] = "idle"
              /\ ~vloc[v].is_stars
              /\ ~vloc[v].prevent)
             => /\ vloc'[v].out = "true"
                /\ entries'[vloc[v].entry].votes_count =
                       entries[vloc[v].entry].votes_count + 1]_vars

\* C10: a weighted vote passes the multiple-vote check whatever the voter's
\* earlier votes, and its commit raises the entry's votes_count by
\* stars_amount * ratio and stars_received by stars_amount.
C10_WeightedVoteRule ==
    [][\A v \in VoteReqs :
          /\ (vpc[v] = "has_voted" /\ vpc'[v] # "has_voted" /\ vloc[v].is_stars)
             => vpc'[v] = "entry"
          /\ (vpc[v] = "commit" /\ vpc'[v] = "idle" /\ vloc[v].is_stars)
             => /\ vloc'[v].out = "true"
                /\ entries'[vloc[v].entry].votes_count =
                       entries[vloc[v].entry].votes_count
                       + vloc[v].stars_amount * vloc[v].ratio
                /\ entries'[vloc[v].entry].stars_received =
                       entries[vloc[v].entry].stars_received + vloc[v].stars_amount]_vars

----------------------------------------------------------------------------
(* Entitlement ledger *)

\* C11: has_access returns true without a change while the expiry is in the
\* future; otherwise with credits > 0 it returns true and takes exactly one
\* credit off the record when consumption was requested; otherwise it returns
\* false without a change. So no credit is taken while a monthly grant is
\* active, and the balance never becomes negative.
C11_HasAccessContract ==
    [][\A e \in LedgerCalls :
        /\ HasAccessStart(e) /\ epc'[e] = "idle" =>
              /\ fa' = fa
              /\ eloc'[e].out = "true" <=>
                    fa.exists /\ (Active(fa, now) \/ fa.one_time_credits > 0)
        /\ HasAccessCommit(e) =>
              /\ ~Active(fa, now)
              /\ fa.one_time_credits > 0
              /\ fa'.one_time_credits = fa.one_time_credits - 1
              /\ fa'.expires_at = fa.expires_at
              /\ eloc'[e].out = "true"]_vars

\* C12: grant_monthly sets the expiry to max(existing expiry, now) + days, and
\* to now + days without a record or an expiry, so that a grant never moves the
\* expiry earlier and never loses remaining time.
C12_GrantMonthlyStacks ==
    [][\A e \in LedgerCalls :
        GrantMonthlyCommit(e) =>
            /\ fa'.exists
            /\ fa'.expires_at = MonthlyBase(fa, eloc[e].at) + MonthDays
            /\ fa'.one_time_credits = fa.one_time_credits]_vars

----------------------------------------------------------------------------
(* Contest confirmation *)

\* the contest rows of the invocations that committed, and no others
CommittedRows == Cardinality({c \in Confirms : cloc[c].r # 0}) = Len(created)

\* C13: during confirmation a one-time credit is taken only after the contest
\* post was sent and the contest committed; when sending the post fails, no
\* credit is taken and no contest or gate row stays persisted.
C13_CreditAfterPublication ==
    [][/\ fa'.one_time_credits # fa.one_time_credits =>
            \E c \in Confirms :
                /\ cpc[c] = "consume_commit" /\ cpc'[c] = "done"
                /\ cloc[c].r \in DOMAIN created
                /\ created[cloc[c].r].channel_message_id \in DOMAIN posts
                /\ fa'.one_time_credits = fa.one_time_credits - 1
       /\ \A c \in Confirms :
            cpc'[c] = "failed" =>
                /\ cpc[c] \in {"send", "failed"}
                /\ cpc[c] = "send" => created' = created /\ posts' = posts /\ fa' = fa
                /\ cloc'[c].r = 0 /\ ~cloc'[c].pending /\ ~cloc'[c].consumed
       /\ CommittedRows']_vars

C13_Witness ==
    \E c, d \in Confirms :
        /\ cpc[c] = "failed" /\ cloc[c].gates > 0 /\ fa.one_time_credits > 0
        /\ cpc[d] = "done" /\ cloc[d].gates > 0 /\ cloc[d].r # 0 /\ ~cloc[d].consumed

\* C14: a contest with gates is created only if the owner had gate access
\* (an active month or a credit) when confirming; without access the
\* confirmation is rejected and no contest, gate or credit change is persisted.
C14_GatedOnlyWithAccess ==
    [][\A c \in Confirms :
        /\ cpc[c] = "access" /\ cpc'[c] = "flush" => AccessGranted(fa, now)
        /\ cpc[c] = "access" /\ cpc'[c] = "rejected_access" =>
              ~AccessGranted(fa, now) /\ UNCHANGED <<created, posts, fa>>
        /\ cpc[c] = "rejected_access" => cpc'[c] = "rejected_access" /\ cloc'[c].r = 0
        /\ cloc[c].r = 0 /\ cloc'[c].r # 0 /\ cloc[c].gates > 0 =>
              cloc[c].allowed /\ created'[cloc'[c].r].gates = cloc[c].gates]_vars

C14_Witness ==
    \E c, d \in Confirms :
        /\ cpc[c] = "rejected_access"
        /\ cloc[d].r # 0 /\ cloc[d].gates > 0 /\ cloc[d].consumed

\* C15: a contest is persisted and published as open only if a ChannelLink
\* bound the confirming user to the target channel when confirming; otherwise
\* the confirmation is rejected and nothing is persisted.
C15_CreatedOnlyWithLink ==
    [][\A c \in Confirms :
        /\ cpc[c] = "valid" /\ cpc'[c] \in {"access", "flush"} =>
              HasLink(Owner, cloc[c].channel_id)
        /\ cpc[c] = "valid" /\ cpc'[c] = "rejected_link" =>
              /\ ~HasLink(Owner, cloc[c].channel_id)
              /\ UNCHANGED <<created, posts, fa>>
        /\ cpc[c] = "rejected_link" => cpc'[c] = "rejected_link" /\ cloc'[c].r = 0
        /\ cloc[c].r = 0 /\ cloc'[c].r # 0 =>
              /\ cloc[c].valid
              /\ created'[cloc'[c].r].is_open
              /\ created'[cloc'[c].r].channel_id = cloc[c].channel_id
              /\ posts[created'[cloc'[c].r].channel_message_id].chat_id = cloc[c].channel_id]_vars

C15_Witness ==
    \E c, d \in Confirms :
        /\ cpc[c] = "rejected_link" /\ cloc[c].channel_id # 0
        /\ cloc[d].r # 0

----------------------------------------------------------------------------
(* Pause, resume and empty draws *)

Paused == ~contest.is_open /\ contest.closed_at = None

\* C16: while the raffle is paused every join request is rejected and no
\* participant is added; once it is open again, the join of an eligible member
\* who is not yet a participant adds exactly that one participant.
C16_PausedBlocksJoins ==
    [][/\ Paused => participants' = participants
       /\ \A q \in JoinReqs :
            /\ Paused /\ jpc[q] = "idle" /\ jloc'[q] # jloc[q] =>
                  jloc'[q].out = "closed" /\ jpc'[q] = "idle"
            /\ contest.is_open /\ jpc[q] = "insert" /\ jpc'[q] = "idle"
                  /\ jloc[q].user \notin SeqToSet(participants) =>
                  /\ participants' = Append(participants, jloc[q].user)
                  /\ jloc'[q].out = "joined"]_vars

\* C17: pause and resume (and stop_quiz) change a contest only for its owner
\* or an administrator of its channel, and then nothing but is_open: a request
\* by anyone else changes nothing, and entries, votes and counters are the
\* same before and after.
C17_PauseResumeFrame ==
    [][\A u \in Users :
        pause(u) \/ resume(u) \/ stop_quiz(u) =>
            /\ ~Authorized(u) => contest' = contest
            /\ contest' = [contest EXCEPT !.is_open = contest'.is_open]
            /\ UNCHANGED <<participants, entries, votes, announcements, notified, clock>>]_vars

C17_Witness ==
    /\ ~contest.is_open /\ contest.closed_at = None
    /\ Len(entries) = Cardinality(Registrants)

\* C18: a draw request on a raffle or a VOTE contest without entries is
\* rejected: nothing is announced, closed_at stays unset, the contest stays
\* paused, and the draw lock is released, so that a draw after a later join
\* can succeed.
C18_EmptyDrawRejected ==
    [][/\ \A t \in Triggers :
            /\ dpc[t] = "rows" /\ dpc'[t] # "rows" /\ participants = <<>> =>
                  /\ dloc'[t].out = "no_participants"
                  /\ dpc'[t] = "unlock"
                  /\ ~inproc_locks'[dloc[t].proc]
                  /\ contest' = contest
                  /\ UNCHANGED <<announcements, notified, participants>>
            /\ dpc[t] = "unlock" /\ dpc'[t] = "done"
                  /\ dloc[t].out = "no_participants" =>
                  /\ ~app_lock'
                  /\ contest' = contest
                  /\ UNCHANGED <<announcements, notified, participants>>
       /\ \A u \in Users :
            handle_vote_draw(u) /\ Paused /\ entries = <<>> =>
                  /\ vd_out' = "no_entries"
                  /\ contest' = contest
                  /\ UNCHANGED <<announcements, entries, votes>>]_vars

C18_Witness ==
    \E t, s \in 1..NumRetryDraws :
        /\ t < s
        /\ dpc[t] = "done" /\ dloc[t].out = "no_participants"
        /\ dpc[s] = "done" /\ dloc[s].out = "done"
        /\ contest.closed_at # None
        /\ announcements # <<>>
        /\ ~app_lock

----------------------------------------------------------------------------
(* Gates *)

C20_LookupFailureRejects ==
    [][gloc' # gloc /\ gloc'.lookup \notin {"none", "ok"} =>
          /\ gpc' = "idle"
          /\ gloc'.out \in {"rejected", "error"}
          /\ UNCHANGED <<participants, entries, votes, offered>>]_vars

C20_Witness ==
    /\ gpc = "idle"
    /\ gloc.lookup = "retry_after" /\ gloc.out = "rejected" /\ gloc.i > 0
    /\ in_main /\ in_gate
    /\ participants = <<>>
    /\ contest.type = "roulette"

\* C23: at most one FeatureAccess row per (user, feature) in every reachable
\* state, also when grant calls for a user without a row run concurrently.
C23_OneRowPerUserFeature ==
    /\ fa.rows <= 1
    /\ fa.exists <=> fa.rows = 1

\* two grant calls that both found no row have finished: one inserted, the
\* other was refused by the constraint
C23_Witness ==
    /\ fa.rows = 1
    /\ \E e1, e2 \in LedgerCalls :
          /\ e1 # e2
          /\ epc[e1] = "idle" /\ epc[e2] = "idle"
          /\ eloc[e1].out = "granted" /\ eloc[e2].out = "error"

\* C24: a completed grant_one_time adds its credits to the balance (or
\* creates the row with them), whatever ran between its read and its commit.
C24_GrantOneTimeAdds ==
    [][\A e \in LedgerCalls :
          epc[e] = "commit" /\ eloc[e].op = "grant_one_time" /\ epc'[e] = "idle"
              /\ eloc'[e].out = "granted" =>
          fa'.one_time_credits = fa.one_time_credits + eloc[e].credits]_vars


\* C30: the persisted draw lock is removed only by the invocation that
\* acquired it; an invocation refused by the insert conflict leaves it.
C30_LockReleasedByHolder ==
    [][\A t \in Triggers :
          dpc[t] = "unlock" /\ dpc'[t] = "done" /\ dloc[t].out = "in_progress" =>
          app_lock' = app_lock]_vars


\* C22: finalizing a paused VOTE contest with entries announces the top
\* winner_count entries by stored votes_count descending, ties in entry-id
\* order.
C22_TopEntriesAnnounced ==
    [][(\E u \in Users : handle_vote_draw(u)) /\ Paused /\ entries # <<>> =>
          /\ Len(top_entries') = (IF contest.winners_count < Len(entries)
                                  THEN contest.winners_count ELSE Len(entries))
          /\ \A i \in 1..(Len(top_entries') - 1) :
                LET a == top_entries'[i]
                    b == top_entries'[i + 1]
                IN  \/ entries[a].votes_count > entries[b].votes_count
                    \/ entries[a].votes_count = entries[b].votes_count /\ a < b
          /\ \A e \in DOMAIN entries :
                (\E i \in DOMAIN top_entries' : top_entries'[i] = e)
                \/ \A i \in DOMAIN top_entries' :
                      \/ entries[top_entries'[i]].votes_count > entries[e].votes_count
                      \/ entries[top_entries'[i]].votes_count = entries[e].votes_count
                            /\ top_entries'[i] < e
          /\ announcements' = Append(announcements, top_entries')]_vars


\* C29: for a pool of N distinct ids and 0 <= k <= N, every ordered selection
\* of k distinct ids is returned for exactly one of the equally likely lists
\* of random draws, so all selections have the same probability.
C29_DrawUniqueUniform ==
    du.called /\ Distinct(du.sample) /\ du.k \in 0..Len(du.sample) =>
        LET n == Len(du.sample)
            selections == {w \in [1..du.k -> SeqToSet(du.sample)] : Distinct(w)}
        IN  /\ du.result \in selections
            /\ \A w \in selections :
                  Cardinality({js \in RandomDraws(n, du.k) :
                                  draw_unique_with(du.sample, du.k, js) = w}) = 1
            /\ \A js \in RandomDraws(n, du.k) :
                  draw_unique_with(du.sample, du.k, js) \in draw_unique(du.sample, du.k)
            /\ \E js \in RandomDraws(n, du.k) :
                  draw_unique_with(du.sample, du.k, js) = du.result

\* two of three distinct ids were drawn, in an order other than the pool's
C29_Witness ==
    /\ du.called
    /\ du.sample = <<1, 2, 3>>
    /\ du.k = 2
    /\ du.result = <<3, 1>>


\* C21: with anti-automation enabled for the contest, a vote or join of the
\* user is recorded only after the user answered a challenge correctly; a
\* wrong answer leaves the flow waiting and records nothing.
C21_RecordedOnlyAfterChallenge ==
    [][/\ contest.anti_bot_enabled /\ (votes' # votes \/ participants' # participants)
            => vfsm.passed
       /\ gloc'.out = "wrong_answer" /\ gloc' # gloc
            => UNCHANGED <<vfsm, votes, participants, entries, offered>>]_vars


\* C26: a successful-payment event changes the payer's entitlement record
\* only if its currency is XTR and the configured price of its package is 0
\* or the paid amount is at least that price.
C26_PaidGrantsOnly ==
    [][\A e \in LedgerCalls :
          epc[e] = "commit" /\ epc'[e] = "idle" /\ eloc[e].payload # "none" /\ fa' # fa =>
          /\ eloc[e].currency = "XTR"
          /\ \/ eloc[e].payload = "gate_monthly"
                   /\ (prices.month = 0 \/ eloc[e].amount >= prices.month)
             \/ eloc[e].payload = "gate_onetime"
                   /\ (prices.once = 0 \/ eloc[e].amount >= prices.once)]_vars


----------------------------------------------------------------------------
(* Creation wizard *)

\* C25: when the monthly price is 0 and a user without access asks for the
\* gate feature, monthly access is granted at once, no invoice is sent and
\* the user is taken to the gate menu; when only the one-time price is 0,
\* one credit is granted instead.
C25_FreeTierGrants ==
    [][gate_add /\ ~HasGateAccess(fa, now) =>
          /\ prices.month = 0 =>
                /\ Active(fa', now)
                /\ invoices' = invoices
                /\ wdata'.sub_view = "gate_add_menu"
          /\ prices.month # 0 /\ prices.once = 0 =>
                /\ fa'.exists
                /\ fa'.one_time_credits = fa.one_time_credits + 1
                /\ invoices' = invoices
                /\ wdata'.sub_view = "gate_add_menu"]_vars

\* the free month was granted on a lapsed row and the gate menu is shown
C25_Witness ==
    /\ wloc = [op |-> "gate_add", out |-> "granted_monthly"]
    /\ prices.month = 0
    /\ now > 0
    /\ fa.expires_at = now + MonthDays
    /\ invoices = 0
    /\ wdata.sub_view = "gate_add_menu"

\* C27: a chat enters the draft's gate list, whether forwarded, linked or
\* picked, only if the user is creator or administrator of it and the bot is
\* administrator there; otherwise the gate list is unchanged.
C27_GateNeedsBothAdmins ==
    [][wdata'.gate_channels # wdata.gate_channels
       /\ Len(wdata'.gate_channels) >= Len(wdata.gate_channels)
       => user_admin /\ bot_admin]_vars

\* a picked chat was added outside the gate step, both being administrators
C27_Witness ==
    /\ wloc = [op |-> "gate_pick_apply", out |-> "added"]
    /\ wstate = "await_winners"
    /\ Len(wdata.gate_channels) = MaxDraftGates
    /\ user_admin
    /\ bot_admin

\* the texts the contract calls invalid or empty
InvalidWinners(text) ==
    \/ Strip(text) = <<>>
    \/ \E i \in 1..Len(text) : text[i] # " " /\ ~IsDigit(text[i])
    \/ \A i \in 1..Len(text) : text[i] \in {" ", "0"}
EmptyText(text) == Strip(text) = <<>>

\* C28 (as stated): an invalid winner count or an empty contest text leaves
\* the wizard in its step and the draft unchanged.
C28_InvalidInputRejected ==
    [][/\ \A text \in WinnerTexts :
            collect_winners(text) /\ InvalidWinners(text) => UNCHANGED <<wstate, wdata>>
       /\ \A text \in Texts :
            collect_text(text) /\ EmptyText(text) => UNCHANGED <<wstate, wdata>>]_vars

----------------------------------------------------------------------------
(* Draw lock and retries *)

\* no draw invocation is between its arrival and the end of its finally block
NoDrawRunning == \A t \in Triggers : dpc[t] \in {"idle", "done"}

\* neither the AppSetting lock row nor an in-process lock entry exists
NoDrawLock == ~app_lock /\ \A p \in Procs : ~inproc_locks[p]

\* C31: an invocation that took the draw lock releases it on every exit path,
\* so when no invocation is running no lock is held, and a trigger is answered
\* "in progress" only while another invocation is running.
C31_LockReleasedOnEveryExit ==
    [][/\ NoDrawRunning' => NoDrawLock'
       /\ \A t \in Triggers :
            dloc'[t].out = "in_progress" /\ dloc[t].out # "in_progress"
            => \E s \in Triggers \ {t} : dpc[s] \notin {"idle", "done"}]_vars

\* an attempt left by an exception after taking both locks, a later trigger
\* ran to the end, and nothing is locked
C31_Witness ==
    /\ NoDrawRunning
    /\ NoDrawLock
    /\ \E s, t \in Triggers :
        /\ s < t
        /\ dpc[s] = "done" /\ dloc[s].out = "announce_failed"
        /\ dpc[t] = "done" /\ dloc[t].out = "done"

\* the winner lists that were notified or announced so far
IssuedSets ==
    {notified[i] : i \in 1..Len(notified)} \cup {announcements[i] : i \in 1..Len(announcements)}

\* C32 (as stated): over all draw attempts on the contest, notifications and
\* announcements are issued for at most one selected winner list.
C32_OneWinnerSetIssued == Cardinality(IssuedSets) <= 1

----------------------------------------------------------------------------
(* Vote tallies *)

\* what the first n Vote rows give entry e: votes and stars
RECURSIVE TallyOf(_, _)
TallyOf(e, n) ==
    IF n = 0 THEN [votes |-> 0, stars |-> 0]
    ELSE LET rest == TallyOf(e, n - 1)
             row == votes[n]
         IN  IF row.entry_id # e THEN rest
             ELSE IF row.is_stars
             THEN [votes |-> rest.votes + StarVotes(row.stars_amount, contest.star_to_vote_ratio),
                   stars |-> rest.stars + row.stars_amount]
             ELSE [votes |-> rest.votes + 1, stars |-> rest.stars]

\* C33 (as stated): every entry's votes_count is the number of its normal
\* Vote rows plus stars_amount * ratio over its weighted rows, and its
\* stars_received is the sum of stars_amount, in every reachable state.
C33_CountersMatchVoteRows ==
    \A e \in 1..Len(entries) :
        /\ entries[e].votes_count = TallyOf(e, Len(votes)).votes
        /\ entries[e].stars_received = TallyOf(e, Len(votes)).stars

\* the normal Vote rows of a voter in the contest
NormalVotesOf(voter) == {i \in VotesOf(voter) : ~votes[i].is_stars}

\* C34 (as stated): with prevent_multiple_votes set, whatever the
\* interleaving of a voter's normal-vote attempts, the voter never has more
\* than one normal Vote row in the contest.
C34_OneNormalVotePerVoter ==
    contest.prevent_multiple_votes =>
        \A voter \in Voters : Cardinality(NormalVotesOf(voter)) <= 1

----------------------------------------------------------------------------
(* Credits and gated publications *)

\* the committed contests that carry gates
GatedCreated == {i \in 1..Len(created) : created[i].gates > 0}

\* the credits granted to a user who never had a monthly grant: the ledger
\* rows of InitCreate without expires_at hold the one credit of one grant
CreditsGranted == IF fa.exists THEN 1 ELSE 0

\* C35 (as stated): for a user without a monthly grant the number of gated
\* contests published never exceeds the number of one-time credits granted,
\* also when several confirmations of the user run concurrently.
C35_CreditsBoundGatedContests ==
    fa.expires_at = None => Cardinality(GatedCreated) <= CreditsGranted

----------------------------------------------------------------------------
(* Votes across contests *)

\* C36 (as stated): add_vote(contest, entry, voter) changes only an entry of
\* the named contest: a request that names an entry of another contest is
\* rejected and leaves that entry unchanged.
C36_ForeignEntryUntouched ==
    [][/\ xentry' = xentry
       /\ \A v \in VoteReqs :
            vpc[v] # "idle" /\ vpc'[v] = "idle" /\ vloc[v].entry = ForeignEntry
            => vloc'[v].out # "true"]_vars

----------------------------------------------------------------------------
(* Who may finalize *)

\* C37 (as stated): only the contest owner or an administrator of its channel
\* finalizes a contest: a finalize request of any other user never selects
\* winners, never announces results and never sets closed_at.
C37_OnlyOwnerOrChannelAdminFinalizes ==
    [][/\ \A f \in Finishes :
            fpc'[f] \in {"send", "commit"} => Authorized(floc'[f].user)
       /\ \A u \in Users :
            handle_vote_draw(u) /\ ~Authorized(u) => top_entries' = top_entries]_vars

----------------------------------------------------------------------------
(* Closing and the quiz *)

FinalizeStep ==
    \/ \E t \in Triggers : dpc[t] = "close" /\ dpc'[t] # "close"
    \/ \E f \in Finishes : fpc[f] = "commit" /\ fpc'[f] = "done"

CreditsOf(i) == {k \in 1..Len(credits) : credits[k].post = i}

\* C39 (as stated): for each posted question at most one answer is credited,
\* and a credit raises the score by exactly the points of that question.
C39_OneCreditPerQuestion ==
    /\ \A i \in 1..Len(posted) : Cardinality(CreditsOf(i)) <= 1
    /\ \A k \in 1..Len(credits) : credits[k].points = Points(posted[credits[k].post])

====
